---------------------------- MODULE Spec2Model ----------------------------
(***************************************************************************)
(* A model of the RNode BLE-to-serial bridge (src/bluetooth).              *)
(*                                                                         *)
(* The bridge service (BLESerialBridge) owns a map address -> RNodeBridge. *)
(* Each RNodeBridge couples one BLEGATTClient to one VirtualSerialPort.    *)
(* All BLE and supervision code runs as coroutines on one asyncio event    *)
(* loop: a coroutine runs atomically from one `await` that really suspends *)
(* to the next.  Every suspended coroutine is a record of the set `tasks`; *)
(* its pc names the await it is suspended at:                              *)
(*   "pair"      pairing_manager.check_pairing_status   (connect)          *)
(*   "gatt"      BleakClient.connect                    (connect)          *)
(*   "notify"    BleakClient.start_notify               (connect)          *)
(*   "?x_tasks"  the cancelled background tasks         (_cleanup_connection) *)
(*   "?x_notify" BleakClient.stop_notify                (_cleanup_connection) *)
(*   "d_client"  BleakClient.disconnect                 (disconnect)       *)
(*   "d_start"   a disconnect() gathered by stop(), not yet started        *)
(*   "l_start"   a _handle_connection_lost task, not yet started           *)
(* (? is c, d, l or m: the cleanup run by connect, disconnect,             *)
(* _handle_connection_lost of the BLE stack, and _connection_monitor).     *)
(*                                                                         *)
(* Specifications: Spec (the service and its control API), SpecReconnect   *)
(* (reconnect() called at any time), SpecData (the two data paths of a     *)
(* bridge), SpecLoss (a lost link, reported by the BLE stack and found by  *)
(* _connection_monitor), SpecRecover (the monitor loop under fair          *)
(* scheduling), SpecDiscovery (scans followed step by step, with the       *)
(* control API), SpecScan and SpecScanRace (the scanner alone, with one    *)
(* caller and with two whose scans may overlap), SpecProbe                 *)
(* (verify_rnode_compatibility on any peripheral), SpecPairing and         *)
(* SpecPairRace (the process-wide pairing manager pm), SpecPty (the PTY    *)
(* endpoints and their symlink, opened and closed directly), SpecStop      *)
(* (stop() with two bridges, a disconnect() of which may raise), SpecDual  *)
(* (two bridges carrying traffic side by side), SpecWriteFail (every write *)
(* to the RX characteristic fails, under fair scheduling), SpecRegister    *)
(* (connections that fail, with two peripherals), SpecSupervise (start()   *)
(* and stop() followed task by task, with scans) and SpecTeardown (frames  *)
(* on their way while the link is disconnected and connected again).       *)
(*                                                                         *)
(* What the model leaves out: a scan is one step except in SpecDiscovery,  *)
(* SpecScan and SpecScanRace, and scans overlap in SpecScanRace only; the  *)
(* clock stands still in every specification but SpecReconnect and         *)
(* SpecRecover (a behaviour is shorter than the reconnect cooldown);       *)
(* start() is not called while a stop() is in flight, except in            *)
(* SpecSupervise; one peripheral is in range except in SpecStop, SpecDual  *)
(* and SpecRegister; the polling of                                        *)
(* _connection_monitor is followed in SpecLoss only; os.unlink and         *)
(* os.symlink succeed; the platform pairing helpers return True or False   *)
(* and do not raise.                                                       *)
(***************************************************************************)
EXTENDS Integers, Sequences, FiniteSets, TLC

(***************************************************************************)
(* Bounds of the model and constants of the program.                       *)
(***************************************************************************)
Addresses == {"a1"}

\* the addresses of the specifications that run two bridges side by side,
\* and their characters
TwoAddresses == {"a1", "a2"}
AddressText(a) == IF a = "a1" THEN <<"a", ":", "1">> ELSE <<"a", ":", "2">>

\* RNodeBridge objects that may be constructed in one behaviour
MaxBridges == 2

\* RNodeBridge.max_reconnect_attempts
max_reconnect_attempts == 5

\* the cooldown of RNodeBridge.reconnect, in seconds
Cooldown == 10

\* BLEGATTClient._tx_worker: max_chunk_size
max_chunk_size == 20

\* the clock advances in steps of TickStep seconds, MaxTicks times at most
TickStep == 5
MaxTicks == 10

\* coroutines that may be suspended at the same time
MaxTasks == 2

\* scans in one behaviour
MaxScans == 1

\* scans in one behaviour of SpecDiscovery, which follows a scan step by
\* step
MaxRescans == 3

\* advertisements of one address heard by one scan
MaxAdverts == 3

\* the addresses that advertise and the signal strengths they are heard at,
\* in the specifications of the scanner alone
ScanAddrs == {"a1", "a2"}

Rssis == {-40, -70}

\* characteristics listed in the Nordic UART service of a peripheral
MaxChars == 3

\* the callers of scan_for_rnodes: scan_for_devices, called from outside,
\* and _discovery_worker
Scanners == {"manual", "worker"}

\* frames read from the PTY master in one behaviour, their lengths in bytes
\* (shorter than, as long as and longer than max_chunk_size), and the writes
\* to the RX characteristic, or to the PTY master, that fail in one behaviour
MaxFrames == 2
FrameLens == {3, 20, 25, 30}
MaxWriteFailures == 1

\* notifications that arrive from the peripheral in one behaviour
MaxNotes == 2

\* close() calls on one PTY endpoint without an open() in between, in
\* SpecPty
MaxCloses == 3

\* pair_with_pin calls in one behaviour
MaxPairCalls == 2

\* the address strings handed to the pairing manager: two spellings of one
\* hardware address
PairAddrs == {"aa:bb:01", "AA:BB:01"}

\* the PINs handed to store_pin_for_device and pair_with_pin (strings), and
\* the values handed to on_confirm_pin (integers)
PinStrings == {"123456", "000000", "12ab"}
PinInts == {0, 123456}

\* time.time() when the service is constructed: later than Cooldown seconds
\* after the epoch, so that the first reconnect() passes the cooldown test
StartTime == Cooldown

BridgeIds == 1..MaxBridges

VARIABLES
    discovered_devices, \* BLEDiscovery.discovered_devices (its keys)
    bridges,            \* BLESerialBridge.bridges: address -> bridge id, 0 = no entry
    is_running,         \* BLESerialBridge.is_running
    br,                 \* the RNodeBridge objects constructed so far, by id
    symlink,            \* /tmp/cu.RNode-<address>: 0 = absent, b = a link to the slave
                        \* path of b, Stale = an entry this process did not make
    tasks,              \* the suspended coroutines
    monitor,            \* BLESerialBridge._monitor_task
    stopper,            \* the coroutine running BLESerialBridge.stop()
    now,                \* time.time()
    ev,                 \* the operation that returned in the last step, if one did
    hist,               \* history (ghost) variables of the claims
    io,                 \* the data paths of each bridge
    env,                \* the scanner and the peripheral
    pm,                 \* ble_pairing.pairing_manager, the process-wide BLEPairingManager
    probe,              \* the last verify_rnode_compatibility call: its input and result
    sup                 \* the supervision tasks of the service, followed one by one

vars == <<discovered_devices, bridges, is_running, br, symlink, tasks,
          monitor, stopper, now, ev, hist, io, env, pm, probe, sup>>

\* the variables that the data paths of a bridge leave alone
ctl == <<discovered_devices, bridges, is_running, br, symlink, tasks,
         monitor, stopper, now, hist, env, pm, probe, sup>>

(***************************************************************************)
(* BridgeState (ble_serial_bridge.py:16-22).                               *)
(***************************************************************************)
DISCONNECTED == "disconnected"
CONNECTING   == "connecting"
CONNECTED    == "connected"
ERROR        == "error"

(***************************************************************************)
(* RNodeBridge.__init__ together with the constructors of its two          *)
(* endpoints.  The fields of the BLEGATTClient and of the                  *)
(* VirtualSerialPort are flattened into the bridge record.                 *)
(*   client : self.client of the GATT link: "none", or a BleakClient that  *)
(*            is "down" or "up" (BleakClient.is_connected)                 *)
(*   chars  : tx_characteristic / rx_characteristic are bound              *)
(*   pumps  : _tx_task and _connection_monitor_task: "none" (not started   *)
(*            or ended), "alive", or "ending" (cancelled, not yet ended)   *)
(*   lost_calls : the calls of the connection_lost callback since          *)
(*            self.client was last created (history)                       *)
(*   cb     : what the state callback was told (history): the state of its *)
(*            last call, and whether some call did not report a change    *)
(*            away from the state reported before it                       *)
(***************************************************************************)
NewBridge(id, a) ==
    [ id |-> id, addr |-> a,
      state |-> DISCONNECTED,
      cb |-> [last |-> DISCONNECTED, bad |-> FALSE],
      last_connection_attempt |-> 0,
      reconnect_attempts |-> 0,
      \* BLEGATTClient
      is_connected |-> FALSE, is_connecting |-> FALSE,
      client |-> "none", chars |-> FALSE, pumps |-> "none",
      lost_calls |-> 0,
      \* set_connection_callbacks(established, lost): pairing is None
      pairing_callback |-> FALSE,
      \* a pairing_required event was delivered through pairing_callback
      pairing_required |-> FALSE,
      \* VirtualSerialPort
      is_open |-> FALSE, master_fd |-> FALSE, slave_fd |-> FALSE,
      slave_path |-> FALSE,
      \* the calls of connection_callback: its last argument, and bad when it
      \* was called with the same argument twice in a row or first with False
      conn_cb |-> [last |-> FALSE, bad |-> FALSE] ]

NoBridge == [NewBridge(0, "none") EXCEPT !.state = "unborn"]

\* the result of running a coroutine up to its next suspension or its return:
\* the bridge record, the symlink of its address, the await it is suspended
\* at (pc, with k the continuation of BLEGATTClient.disconnect), or its
\* return value
Res(B, L, pc, k, ret) == [B |-> B, L |-> L, pc |-> pc, k |-> k, ret |-> ret]

(***************************************************************************)
(* RNodeBridge._set_state                                                  *)
(***************************************************************************)
\* self.state_callback(self, new_state), called when the state was old
state_callback(cb, old, new_state) ==
    [last |-> new_state, bad |-> cb.bad \/ cb.last # old \/ new_state = old]

set_state_always(B, new_state) ==
    [B EXCEPT !.state = new_state, !.cb = state_callback(@, B.state, new_state)]

set_state(B, new_state) ==
    IF B.state # new_state
    THEN [B EXCEPT !.state = new_state, !.cb = state_callback(@, B.state, new_state)]
    ELSE B

(***************************************************************************)
(* VirtualSerialPort                                                       *)
(***************************************************************************)
\* an entry at /tmp/cu.<device_name> left by another process
Stale == -1

\* self.connection_callback(v)
connection_callback(c, v) == [last |-> v, bad |-> c.bad \/ c.last = v]

pty_cleanup_keep(B, L) ==
    Res([B EXCEPT !.master_fd = FALSE, !.slave_fd = FALSE, !.slave_path = FALSE],
        L, "", "", "")

\* _cleanup: both fds closed, the symlink at /tmp/cu.<device_name> removed
\* when this endpoint has a slave path, the slave path forgotten
pty_cleanup(B, L) ==
    Res([B EXCEPT !.master_fd = FALSE, !.slave_fd = FALSE, !.slave_path = FALSE],
        IF B.slave_path THEN 0 ELSE L, "", "", "")

\* open(): ok is whether pty.openpty() / os.ttyname() succeed
pty_open(B, L, ok) ==
    IF B.is_open THEN Res(B, L, "", "", "true")
    ELSE IF ok
         THEN Res([B EXCEPT !.master_fd = TRUE, !.slave_fd = TRUE,
                            !.slave_path = TRUE, !.is_open = TRUE,
                            !.conn_cb = connection_callback(@, TRUE)],
                  B.id, "", "", "true")
         ELSE [pty_cleanup(B, L) EXCEPT !.ret = "false"]

pty_close_leak(B, L) == Res(B, L, "", "", "")

pty_close_unguarded(B, L) ==
    pty_cleanup([B EXCEPT !.is_open = FALSE,
                          !.conn_cb = connection_callback(@, FALSE)], L)

\* close()
pty_close(B, L) ==
    IF ~B.is_open THEN Res(B, L, "", "", "")
    ELSE pty_cleanup([B EXCEPT !.is_open = FALSE,
                               !.conn_cb = connection_callback(@, FALSE)], L)

(***************************************************************************)
(* BLEGATTClient and RNodeBridge: the code each coroutine runs between two *)
(* awaits.  An operator returns Res(...) with pc the await the coroutine   *)
(* reaches next, or with ret the value the RNodeBridge method returns      *)
(* ("true", "false", or "done" for a method without a result).             *)
(*                                                                         *)
(* _cleanup_connection is entered from three places, its frame:            *)
(*   "cx"  the except clause of BLEGATTClient.connect                      *)
(*   "dx"  BLEGATTClient.disconnect                                        *)
(*   "lx"  BLEGATTClient._handle_connection_lost, run as a task of its own *)
(*   "mx"  BLEGATTClient._handle_connection_lost, run by                   *)
(*         _connection_monitor                                             *)
(* BLEGATTClient.disconnect is entered from RNodeBridge._cleanup, which is *)
(* called by RNodeBridge.disconnect (k = "disc") and by the except clause  *)
(* of RNodeBridge.connect (k = "gattfail" when BLEGATTClient.connect went  *)
(* through its own except clause, k = "fail" otherwise).                   *)
(***************************************************************************)
PcTasks(frame) ==
    CASE frame = "cx" -> "cx_tasks" [] frame = "dx" -> "dx_tasks"
      [] frame = "lx" -> "lx_tasks" [] frame = "mx" -> "mx_tasks"

PcNotify(frame) ==
    CASE frame = "cx" -> "cx_notify" [] frame = "dx" -> "dx_notify"
      [] frame = "lx" -> "lx_notify" [] frame = "mx" -> "mx_notify"

FrameOf(pc) ==
    CASE pc \in {"cx_tasks", "cx_notify"} -> "cx"
      [] pc \in {"dx_tasks", "dx_notify"} -> "dx"
      [] pc \in {"lx_tasks", "lx_notify"} -> "lx"
      [] pc \in {"mx_tasks", "mx_notify"} -> "mx"

RECURSIVE cleanup_connection(_, _, _, _)

\* RNodeBridge.connect, the success path
connect_succeeded(B, L) ==
    Res([set_state(B, CONNECTED) EXCEPT !.reconnect_attempts = 0], L, "", "", "true")

\* RNodeBridge._cleanup after ble_client.disconnect() has returned:
\* virtual_serial.close(), then the caller returns
after_ble_disconnect(B, L, k) ==
    LET P == pty_close(B, L)
    IN  Res(P.B, P.L, "", "", IF k = "disc" THEN "done" ELSE "false")

\* BLEGATTClient.disconnect after _cleanup_connection: the peripheral
\* connection is torn down only when the client still reports connected
ble_disconnect_tail(B, L, k) ==
    IF B.client = "up" THEN Res([B EXCEPT !.client = "down"], L, "d_client", k, "")
    ELSE after_ble_disconnect(B, L, k)

\* RNodeBridge._cleanup: BLEGATTClient.disconnect returns at once when the
\* link is not connected
bridge_cleanup(B, L, k) ==
    IF ~B.is_connected THEN after_ble_disconnect(B, L, k)
    ELSE cleanup_connection(B, L, "dx", k)

\* RNodeBridge.connect, the except clause
bridge_connect_failed(B, L, k) == bridge_cleanup(set_state(B, ERROR), L, k)

\* BLEGATTClient.connect: return False after the cleanup, and the finally clause
ble_connect_failed(B, L) ==
    bridge_connect_failed([B EXCEPT !.is_connecting = FALSE], L, "gattfail")

\* RNodeBridge._on_ble_disconnected, the connection_lost callback
on_ble_disconnected(B, L) ==
    Res([set_state(B, ERROR) EXCEPT !.lost_calls = @ + 1], L, "", "", "done")

\* _cleanup_connection: characteristics cleared, then back in the caller
cleanup_finish(B, L, frame, k) ==
    LET B1 == [B EXCEPT !.chars = FALSE]
    IN  CASE frame = "cx" -> ble_connect_failed(B1, L)
          [] frame = "dx" -> ble_disconnect_tail(B1, L, k)
          [] frame = "lx" -> on_ble_disconnected(B1, L)
          [] frame = "mx" -> on_ble_disconnected(B1, L)

\* _cleanup_connection: stop_notify is awaited when a client and the TX
\* characteristic exist; on a client that is not connected it raises at once
cleanup_stop_notify(B, L, frame, k) ==
    IF B.client = "up" /\ B.chars THEN Res(B, L, PcNotify(frame), k, "")
    ELSE cleanup_finish(B, L, frame, k)

\* _cleanup_connection: is_connected cleared, the background tasks cancelled
\* and awaited
cleanup_connection(B, L, frame, k) ==
    LET B1 == [B EXCEPT !.is_connected = FALSE]
    IN  IF B1.pumps # "none"
        THEN Res([B1 EXCEPT !.pumps = "ending"], L, PcTasks(frame), k, "")
        ELSE cleanup_stop_notify(B1, L, frame, k)

\* BLEGATTClient._handle_connection_lost
handle_connection_lost(B, L) ==
    cleanup_connection([B EXCEPT !.is_connected = FALSE], L, "lx", "")

\* BLEGATTClient._connection_monitor finds the client not connected and
\* awaits _handle_connection_lost
monitor_connection_lost(B, L) ==
    cleanup_connection([B EXCEPT !.is_connected = FALSE], L, "mx", "")

\* RNodeBridge.connect up to the first await of BLEGATTClient.connect
bridge_connect(B, L, ptyok) ==
    LET P == pty_open(set_state(B, CONNECTING), L, ptyok)
    IN  IF P.ret = "false" THEN bridge_connect_failed(P.B, P.L, "fail")
        ELSE IF P.B.is_connected \/ P.B.is_connecting
             THEN \* "Already connected/connecting": returns is_connected
                  IF P.B.is_connected THEN connect_succeeded(P.B, P.L)
                  ELSE bridge_connect_failed(P.B, P.L, "fail")
             ELSE Res([P.B EXCEPT !.is_connecting = TRUE], P.L, "pair", "", "")

\* BLEGATTClient.connect after check_pairing_status: a new BleakClient
ble_connect_client(B, L) ==
    Res([B EXCEPT !.client = "down", !.lost_calls = 0], L, "gatt", "", "")

\* client.connect() raised an error whose text holds 'not paired',
\* 'authentication', 'bonding' or 'security'
pairing_failure(B) ==
    IF B.pairing_callback THEN [B EXCEPT !.pairing_required = TRUE] ELSE B

\* BLEGATTClient.connect after client.connect(); out is what the peripheral
\* did: "fail" (connect raised), "auth" (connect raised a pairing or
\* authentication error), "nosvc" (connected, but no Nordic UART service or
\* characteristic), "ok"
ble_connect_setup(B, L, out) ==
    CASE out = "fail"  -> cleanup_connection(B, L, "cx", "")
      [] out = "auth"  -> cleanup_connection(pairing_failure(B), L, "cx", "")
      [] out = "nosvc" -> cleanup_connection([B EXCEPT !.client = "up"], L, "cx", "")
      [] out = "ok"    -> Res([B EXCEPT !.client = "up", !.chars = TRUE], L, "notify", "", "")

\* BLEGATTClient.connect after start_notify: background tasks started,
\* is_connected set, finally clause
ble_connect_finish(B, L, out) ==
    IF out = "ok"
    THEN connect_succeeded([B EXCEPT !.pumps = "alive", !.is_connected = TRUE,
                                     !.is_connecting = FALSE], L)
    ELSE cleanup_connection(B, L, "cx", "")

\* RNodeBridge.disconnect
bridge_disconnect(B, L) == bridge_cleanup(set_state(B, DISCONNECTED), L, "disc")

\* RNodeBridge.disconnect when the state callback raises: _set_state has
\* assigned the state, _cleanup is not reached.  On a bridge that is
\* Disconnected already the callback is not called.
bridge_disconnect_raises(B, L) ==
    IF B.state = DISCONNECTED THEN bridge_disconnect(B, L)
    ELSE Res(set_state(B, DISCONNECTED), L, "", "", "raised")

reconnect_admission_nocap(B, t) ==
    IF t - B.last_connection_attempt < Cooldown THEN "soon" ELSE "ok"

reconnect_admission_nocooldown(B, t) ==
    IF B.reconnect_attempts >= max_reconnect_attempts THEN "max" ELSE "ok"

\* RNodeBridge.reconnect: the two tests before an attempt
reconnect_admission(B, t) ==
    IF B.reconnect_attempts >= max_reconnect_attempts THEN "max"
    ELSE IF t - B.last_connection_attempt < Cooldown THEN "soon"
    ELSE "ok"

\* RNodeBridge.reconnect
bridge_reconnect(B, L, t, ptyok) ==
    IF reconnect_admission(B, t) # "ok" THEN Res(B, L, "", "", "false")
    ELSE LET B1 == [B EXCEPT !.last_connection_attempt = t,
                             !.reconnect_attempts = @ + 1]
             D  == bridge_disconnect(B1, L)
         IN  IF D.pc # "" THEN D ELSE bridge_connect(D.B, D.L, ptyok)

(***************************************************************************)
(* History variables.                                                      *)
(*   admitted[b]  reconnect() calls on b that were admitted since b was    *)
(*                constructed or last reached CONNECTED                    *)
(*   lastAdmit[b] the time of the last admitted reconnect() on b, -1: none *)
(*   tooSoon[b]   an admitted reconnect() on b came less than Cooldown     *)
(*                seconds after the admitted one before it                 *)
(*   torn[b]      disconnect() has returned on b when no connect() on b    *)
(*                was in flight, and connect() was not called on b since   *)
(*   closes[b]    in SpecPty: close() calls on the endpoint of b since its *)
(*                last open(), -1: never opened                            *)
(*   quiesced     stop() has returned and no operation was called since    *)
(*   raised       the bridges whose disconnect(), gathered by a stop(),    *)
(*                raised                                                   *)
(*   scans        scans made so far                                        *)
(***************************************************************************)
HistInit ==
    [ admitted  |-> [b \in BridgeIds |-> 0],
      lastAdmit |-> [b \in BridgeIds |-> -1],
      tooSoon   |-> [b \in BridgeIds |-> FALSE],
      torn      |-> [b \in BridgeIds |-> FALSE],
      closes    |-> [b \in BridgeIds |-> -1],
      quiesced  |-> FALSE,
      raised    |-> {},
      scans     |-> 0 ]

\* a reconnect() call on bridge record B at time t
HistReconnect(h, B, t) ==
    IF reconnect_admission(B, t) # "ok" THEN h
    ELSE [h EXCEPT !.quiesced = FALSE,
                   !.torn[B.id] = FALSE,
                   !.admitted[B.id] = @ + 1,
                   !.lastAdmit[B.id] = t,
                   !.tooSoon[B.id] = @ \/ (h.lastAdmit[B.id] >= 0
                                           /\ t - h.lastAdmit[B.id] < Cooldown)]

\* a connect() of bridge b returned ret
HistReturn(h, b, ret) ==
    IF ret = "true" THEN [h EXCEPT !.admitted[b] = 0] ELSE h

HistCall(h) == [h EXCEPT !.quiesced = FALSE]

\* the coroutines in ts, other than t, that run connect() or reconnect() on
\* bridge b
Connecting(ts, t, b) ==
    {u \in ts \ {t} : u.b = b /\ u.op \in {"connect_device", "monitor", "reconnect"}}

\* a disconnect() of bridge b called by BLESerialBridge returned, the
\* coroutines ts being suspended
HistDisconnected(h, ts, t, b) ==
    IF Connecting(ts, t, b) = {} THEN [h EXCEPT !.torn[b] = TRUE] ELSE h

(***************************************************************************)
(* The state after construction of the service (BLESerialBridge.__init__). *)
(***************************************************************************)
NoTask == [op |-> "none", b |-> 0, pc |-> "", k |-> ""]
Task(op, b, R) == [op |-> op, b |-> b, pc |-> R.pc, k |-> R.k]
\* ev: an operation op on bridge b returned ret in the last step; why is the
\* reason of a "false": "gatt" (the GATT connect failed), "max" or "soon"
\* (reconnect() not admitted).  Only the returns the claims speak of are
\* recorded: a connect() that failed on the GATT side, and every return of a
\* reconnect() called by a user of the class.
Event(op, b, ret, why) == [op |-> op, b |-> b, ret |-> ret, why |-> why]
NoEvent == Event("", 0, "", "")
Observe(op, b, ret, why) ==
    IF op = "reconnect" \/ (ret = "false" /\ why = "gatt")
    THEN Event(op, b, ret, why) ELSE NoEvent

(***************************************************************************)
(* The data paths of one bridge.  Host to device:                          *)
(*   tx_queue : BLEGATTClient.tx_queue                                     *)
(*   data, i  : the frame _tx_worker is sending and the offset of its next *)
(*              chunk; data = <<>> when the worker is between frames       *)
(*   read     : the frames read from the PTY master so far (history)       *)
(*   taken    : the frames _tx_worker has taken from tx_queue (history)    *)
(*   wire     : the chunks written to the RX characteristic so far         *)
(*              (history)                                                  *)
(*   failures : the writes to the RX characteristic that failed so far     *)
(*              (history)                                                  *)
(* Device to host:                                                         *)
(*   rx_queue : VirtualSerialPort.rx_queue                                 *)
(*   out      : the payload _write_worker has taken from rx_queue, <<>>    *)
(*              when it has none                                           *)
(*   notes    : the notifications that arrived so far (history)            *)
(*   pty      : the payloads written to the PTY master so far (history)    *)
(*   requeued : the writes to the PTY master that failed and were queued   *)
(*              again so far (history)                                     *)
(* The threads of the VirtualSerialPort:                                   *)
(*   reading, writing : _read_worker / _write_worker has not left its loop *)
(*              on an error                                                *)
(***************************************************************************)
NoTraffic ==
    [ tx_queue |-> <<>>, data |-> <<>>, i |-> 0,
      read |-> <<>>, taken |-> <<>>, wire |-> <<>>, failures |-> 0,
      rx_queue |-> <<>>, out |-> <<>>, notes |-> 0, pty |-> <<>>, requeued |-> 0,
      reading |-> TRUE, writing |-> TRUE ]

(***************************************************************************)
(* BLEPairingManager (ble_pairing.py), the process-wide pairing_manager,   *)
(* and BLEAuthHandler.  pairing_state and stored_pins are dicts keyed by   *)
(* the address string as it was passed in: functions whose domain is the   *)
(* set of keys; pairing_callbacks is the set of the keys that have a       *)
(* callback.  calls holds the pair_with_pin coroutines called so far, in   *)
(* the order of the calls: "helper" (suspended in                          *)
(* `await self._pair_macos(...)`; on Linux the helper blocks the event     *)
(* loop, which are the behaviours in which the call returns in the step    *)
(* after it began) and "done".  last is the call that returned in the last *)
(* step.                                                                   *)
(***************************************************************************)
PairCalls == 1..MaxPairCalls

NoPairEvent == <<>>

BLEPairingManager ==
    [ pairing_state     |-> <<>>,
      stored_pins       |-> <<>>,
      pairing_callbacks |-> {},
      calls             |-> <<>>,
      last              |-> NoPairEvent ]

\* d.get(k), None for a missing key
Get(d, k) == IF k \in DOMAIN d THEN d[k] ELSE "None"

\* d[k] = v
Put(d, k, v) == [x \in DOMAIN d \cup {k} |-> IF x = k THEN v ELSE d[x]]

\* del d[k]
Del(d, k) == [x \in DOMAIN d \ {k} |-> d[x]]

\* str.lower() of an address string
Lower(a) == IF a = "AA:BB:01" THEN "aa:bb:01" ELSE a

\* int(pin): the value of a string of digits, a ValueError (-1) otherwise
IntOf(pin) ==
    CASE pin = "123456" -> 123456
      [] pin = "000000" -> 0
      [] OTHER          -> -1

store_pin_for_device(P, a, pin) == [P EXCEPT !.stored_pins = Put(@, a, pin)]

get_stored_pin(P, a) == Get(P.stored_pins, a)

clear_stored_pin(P, a) ==
    IF a \in DOMAIN P.stored_pins THEN [P EXCEPT !.stored_pins = Del(@, a)] ELSE P

\* pair_with_pin up to the await of the platform helper
pair_begin(P, a, pin) ==
    [store_pin_for_device([P EXCEPT !.pairing_state = Put(@, a, "pairing")], a, pin)
        EXCEPT !.calls = Append(@, [pc |-> "helper", addr |-> a, pin |-> pin, ret |-> ""])]

\* the state pair_with_pin leaves for the outcome of the helper
pair_outcome_stuck(success) == IF success THEN "paired" ELSE "pairing"

pair_outcome(success) == IF success THEN "paired" ELSE "failed"

\* pair_with_pin after the helper has returned success
pair_end(P, c, success) ==
    LET a == P.calls[c].addr
    IN  [P EXCEPT !.pairing_state = Put(@, a, pair_outcome(success)),
                  !.calls[c].pc = "done",
                  !.calls[c].ret = IF success THEN "true" ELSE "false"]

\* BLEPairingManager.notify_pairing_event: the event reaches the callback
\* registered for the address, if there is one
notify_pairing_event(P, a) == a \in P.pairing_callbacks

\* BLEAuthHandler.on_confirm_pin(pin) of the handler for address a: the
\* value returned and whether a pin_confirm event was surfaced
on_confirm_pin(P, a, pin) ==
    LET stored_pin == get_stored_pin(P, a)
    IN  IF stored_pin # "None" /\ IntOf(stored_pin) # -1
        THEN [ret |-> IntOf(stored_pin) = pin, surfaced |-> FALSE]
        ELSE [ret |-> TRUE, surfaced |-> notify_pairing_event(P, a)]

PairIdle == UNCHANGED <<discovered_devices, bridges, is_running, br, symlink, tasks,
                        monitor, stopper, now, ev, hist, io, env, probe, sup>>

Quiet(P) == [P EXCEPT !.last = NoPairEvent]

StorePin(a, pin) ==
    /\ pm' = store_pin_for_device(Quiet(pm), a, pin)
    /\ PairIdle

ClearPin(a) ==
    /\ pm' = clear_stored_pin(Quiet(pm), a)
    /\ PairIdle

SetPairingCallback(a) ==
    /\ pm' = [Quiet(pm) EXCEPT !.pairing_callbacks = @ \cup {a}]
    /\ PairIdle

PairStart(a, pin) ==
    /\ Len(pm.calls) < MaxPairCalls
    /\ pm' = pair_begin(Quiet(pm), a, pin)
    /\ PairIdle

PairFinish(c, success) ==
    /\ c \in DOMAIN pm.calls
    /\ pm.calls[c].pc = "helper"
    /\ LET P == pair_end(pm, c, success)
       IN  pm' = [P EXCEPT !.last = [op |-> "pair_with_pin", addr |-> P.calls[c].addr,
                                     ret |-> P.calls[c].ret]]
    /\ PairIdle

ConfirmPin(a, pin) ==
    /\ LET R == on_confirm_pin(pm, a, pin)
       IN  pm' = [pm EXCEPT !.last = [op |-> "on_confirm_pin", addr |-> a, pin |-> pin,
                                      ret |-> R.ret, surfaced |-> R.surfaced]]
    /\ PairIdle

(***************************************************************************)
(* The environment.                                                        *)
(*   is_scanning : BLEDiscovery.is_scanning                                *)
(*   accepts     : the peripheral accepts every connection from now on     *)
(*   sighted     : the addresses sighted by any scan                       *)
(*   active      : the callers whose scan_for_rnodes is between            *)
(*                 scanner.start() and scanner.stop()                      *)
(*   rssi        : the rssi field of the RNodeDevice records that the      *)
(*                 detection callback put into discovered_devices, by      *)
(*                 address                                                 *)
(*   adverts     : for each caller, what its scan (the one running, or its *)
(*                 last one) was told, by address: n advertisements, the   *)
(*                 rssi of the last of them, and the rounds of discovery   *)
(*                 callbacks fired for the address during the scan, told   *)
(*                 the calls of the service's _on_device_discovered among  *)
(*                 them                                                    *)
(***************************************************************************)
NoProbe == <<>>

NoSupervision ==
    [ scan_callbacks |-> 0, discovery_task |-> 0, monitor_task |-> 0,
      workers |-> {}, made |-> 0, stops |-> {} ]

\* the last four digits of the first group of NORDIC_UART_RX_UUID and
\* NORDIC_UART_TX_UUID
NORDIC_UART_RX_UUID == "0002"
NORDIC_UART_TX_UUID == "0003"

\* str.lower() of the UUIDs a peripheral may list: the two above as bleak
\* gives them and in capitals, and the UUID of another characteristic
uuid_lower(u) ==
    CASE u = "0002-UPPER" -> "0002"
      [] u = "0003-UPPER" -> "0003"
      [] OTHER -> u

CharUuids == {"0002", "0002-UPPER", "0003", "0003-UPPER", "2a00"}

PropSets == {{}, {"write"}, {"write-without-response"}, {"notify"}, {"read"},
             {"indicate"}}

Characteristics == [uuid : CharUuids, props : PropSets]

\* a peripheral as verify_rnode_compatibility finds it: whether
\* BleakClient connects, whether get_service finds the Nordic UART service,
\* and service.characteristics
Peripherals ==
    {[connects |-> FALSE, service |-> FALSE, chars |-> <<>>],
     [connects |-> TRUE, service |-> FALSE, chars |-> <<>>]}
    \cup {[connects |-> TRUE, service |-> TRUE, chars |-> c] :
              c \in UNION {[1..n -> Characteristics] : n \in 0..MaxChars}}

\* the characteristic the for loop of verify_rnode_compatibility leaves in
\* rx_char (tx_char): the index of the last one listed with the UUID, 0 for
\* None
LastWith(chars, uuid) ==
    LET I == {i \in DOMAIN chars : uuid_lower(chars[i].uuid) = uuid_lower(uuid)}
    IN  IF I = {} THEN 0 ELSE CHOOSE i \in I : \A j \in I : j <= i

\* BLEDiscovery.verify_rnode_compatibility; a BleakClient that does not
\* connect raises, which the except clause turns into False
verify_rnode_compatibility_any_props(p) ==
    IF ~p.connects THEN FALSE
    ELSE IF ~p.service THEN FALSE
    ELSE LastWith(p.chars, NORDIC_UART_RX_UUID) # 0
         /\ LastWith(p.chars, NORDIC_UART_TX_UUID) # 0

verify_rnode_compatibility(p) ==
    IF ~p.connects THEN FALSE
    ELSE IF ~p.service THEN FALSE
    ELSE LET rx == LastWith(p.chars, NORDIC_UART_RX_UUID)
             tx == LastWith(p.chars, NORDIC_UART_TX_UUID)
         IN  IF rx = 0 THEN FALSE
             ELSE IF tx = 0 THEN FALSE
             ELSE IF "write" \notin p.chars[rx].props
                     /\ "write-without-response" \notin p.chars[rx].props THEN FALSE
             ELSE IF "notify" \notin p.chars[tx].props
                     /\ "read" \notin p.chars[tx].props THEN FALSE
             ELSE TRUE

NoScan == [is_scanning |-> FALSE, accepts |-> FALSE, sighted |-> {},
           active |-> {}, rssi |-> <<>>, adverts |-> [who \in Scanners |-> <<>>]]

\* A is the set of the addresses of the peripherals in range
InitWith(A) ==
    /\ discovered_devices = {}
    /\ bridges = [a \in A |-> 0]
    /\ is_running = FALSE
    /\ br = [b \in BridgeIds |-> NoBridge]
    /\ symlink = [a \in A |-> 0]
    /\ tasks = {}
    /\ monitor = [pc |-> "none", todo |-> <<>>]
    /\ stopper = "idle"
    /\ now = StartTime
    /\ ev = NoEvent
    /\ hist = HistInit
    /\ io = [b \in BridgeIds |-> NoTraffic]
    /\ env = NoScan
    /\ pm = BLEPairingManager
    /\ sup = NoSupervision

InitProgram == InitWith(Addresses)

Init == InitProgram /\ probe = NoProbe

InitTwo == InitWith(TwoAddresses) /\ probe = NoProbe

(***************************************************************************)
(* The supervision of the service, followed task by task:                  *)
(*   scan_callbacks  the times BLESerialBridge._on_device_discovered is in *)
(*                   BLEDiscovery.scan_callbacks                           *)
(*   discovery_task, monitor_task                                          *)
(*                   the fields _discovery_task and _monitor_task: the id  *)
(*                   of a task, 0 for None                                 *)
(*   workers         the tasks made by start() that are not done: id, kind *)
(*                   and whether cancel() was called on them               *)
(*   made            the tasks made so far                                 *)
(*   stops           the stop() coroutines that are suspended: where, and  *)
(*                   the task they await                                   *)
(***************************************************************************)
\* a peripheral is about to be verified
InitProbe ==
    /\ InitProgram
    /\ probe \in {[input |-> p, ret |-> "None"] : p \in Peripherals}

\* the call of verify_rnode_compatibility on the peripheral
Probe ==
    /\ probe # NoProbe /\ probe.ret = "None"
    /\ probe' = [probe EXCEPT !.ret = IF verify_rnode_compatibility(probe.input)
                                       THEN "true" ELSE "false"]
    /\ UNCHANGED <<discovered_devices, bridges, is_running, br, symlink, tasks,
                   monitor, stopper, now, ev, hist, io, env, pm, sup>>

Born(b) == br[b].state # "unborn"
Unborn == {b \in BridgeIds : ~Born(b)}
\* bridge ids are handed out in order of construction
NextId == CHOOSE b \in Unborn : \A c \in Unborn : b <= c

(***************************************************************************)
(* BLEDiscovery.scan_for_rnodes: the cache is cleared and refilled with    *)
(* the addresses S sighted during the scan.                                *)
(***************************************************************************)
ScanForRnodes(S) ==
    /\ UNCHANGED <<io, env, pm, probe, sup>>
    /\ hist.scans < MaxScans
    /\ discovered_devices' = S
    /\ hist' = [hist EXCEPT !.scans = @ + 1]
    /\ ev' = NoEvent
    /\ UNCHANGED <<bridges, is_running, br, symlink, tasks, monitor, stopper, now>>

(***************************************************************************)
(* BLEDiscovery.scan_for_rnodes step by step: the cache is cleared, the    *)
(* detection callback of each running BleakScanner enters each RNode that  *)
(* is sighted, and the scan ends and returns the values of the cache.      *)
(* ScanForRnodes above is a whole scan without a suspension; it leaves the *)
(* rssi of the records out, which no action that follows it reads.         *)
(***************************************************************************)
\* RNodeDevice.__init__: rssi is copied from the BLEDevice once
RNodeDevice(r) == r

\* _handle_rnode_discovery on D = [devices, rssi, fired]
handle_rnode_discovery_again(D, a, r) ==
    [devices |-> D.devices \cup {a}, rssi |-> Put(D.rssi, a, RNodeDevice(r)),
     fired |-> D.fired + 1]

handle_rnode_discovery(D, a, r) ==
    IF a \notin D.devices
    THEN [devices |-> D.devices \cup {a}, rssi |-> Put(D.rssi, a, RNodeDevice(r)),
          fired |-> D.fired + 1]
    ELSE D

\* what the scan of `who` was told about address a
Heard(who, a) ==
    IF a \in DOMAIN env.adverts[who] THEN env.adverts[who][a]
    ELSE [n |-> 0, last |-> 0, fired |-> 0, told |-> 0]

\* scan_for_rnodes up to `await scanner.start()`
ScanStart(who) ==
    /\ who \notin env.active
    /\ hist.scans < MaxRescans
    /\ env' = [env EXCEPT !.is_scanning = TRUE, !.active = @ \cup {who},
                           !.rssi = <<>>, !.adverts[who] = <<>>]
    /\ discovered_devices' = {}
    /\ hist' = [hist EXCEPT !.scans = @ + 1]
    /\ ev' = NoEvent
    /\ UNCHANGED <<bridges, is_running, br, symlink, tasks, monitor, stopper, now, io>>
    /\ UNCHANGED <<pm, probe, sup>>

\* one advertisement of address a at signal strength r: detection_callback
\* -> _handle_rnode_discovery, once for each BleakScanner that is running
Sight(a, r) ==
    /\ env.active # {}
    /\ \A who \in env.active : Heard(who, a).n < MaxAdverts
    /\ LET D0 == [devices |-> discovered_devices, rssi |-> env.rssi, fired |-> 0]
           D1 == handle_rnode_discovery(D0, a, r)
           D  == IF Cardinality(env.active) = 1 THEN D1
                 ELSE handle_rnode_discovery(D1, a, r)
       IN  /\ discovered_devices' = D.devices
           /\ env' = [env EXCEPT
                  !.rssi = D.rssi,
                  !.sighted = @ \cup {a},
                  !.adverts = [who \in Scanners |->
                      IF who \in env.active
                      THEN Put(@[who], a, [n     |-> Heard(who, a).n + 1,
                                           last  |-> r,
                                           fired |-> Heard(who, a).fired + D.fired,
                                           told  |-> Heard(who, a).told
                                                     + D.fired * sup.scan_callbacks])
                      ELSE @[who]]]
    /\ ev' = NoEvent
    /\ UNCHANGED <<bridges, is_running, br, symlink, tasks, monitor, stopper, now, hist, io>>
    /\ UNCHANGED <<pm, probe, sup>>

\* scan_for_rnodes from `await scanner.stop()` to its return of
\* list(self.discovered_devices.values())
ScanStop(who) ==
    /\ who \in env.active
    /\ env' = [env EXCEPT !.is_scanning = FALSE, !.active = @ \ {who}]
    /\ ev' = Event("scan_for_rnodes", 0, "", who)
    /\ UNCHANGED <<discovered_devices, bridges, is_running, br, symlink, tasks,
                   monitor, stopper, now, hist, io, pm, probe, sup>>

\* BLEDiscovery.get_device_by_address: dict.get, the device or None
get_device_by_address_any(cache, a) == a

get_device_by_address(cache, a) == IF a \in cache THEN a ELSE "None"

(***************************************************************************)
(* BLESerialBridge.connect_device(a) with _create_bridge, up to the first  *)
(* await of RNodeBridge.connect.                                           *)
(***************************************************************************)
ConnectDevice(a, ptyok) ==
    /\ UNCHANGED <<io, env, pm, probe, sup>>
    /\ UNCHANGED <<discovered_devices, is_running, monitor, stopper, now>>
    /\ IF get_device_by_address(discovered_devices, a) = "None"
       THEN /\ ev' = Event("connect_device", 0, "false", "notfound")
            /\ UNCHANGED <<bridges, br, symlink, tasks, hist>>
       ELSE IF bridges[a] # 0
       THEN /\ ev' = NoEvent
            /\ UNCHANGED <<bridges, br, symlink, tasks, hist>>
       ELSE /\ Unborn # {}
            /\ LET b == NextId
                   R == bridge_connect(NewBridge(b, a), symlink[a], ptyok)
               IN  /\ bridges' = [bridges EXCEPT ![a] = b]
                   /\ br' = [br EXCEPT ![b] = R.B]
                   /\ symlink' = [symlink EXCEPT ![a] = R.L]
                   /\ hist' = HistCall(hist)
                   /\ IF R.pc # ""
                      THEN /\ tasks' = tasks \cup {Task("connect_device", b, R)}
                           /\ ev' = NoEvent
                      ELSE /\ ev' = NoEvent
                           /\ UNCHANGED tasks

\* `del self.bridges[device_address]` (a KeyError when the entry is gone)
DelBridge(m, a) == [m EXCEPT ![a] = 0]

create_bridge_end_unregisters(m, a, ret) == IF ret = "false" THEN DelBridge(m, a) ELSE m

\* _create_bridge after `success = await bridge.connect()`: the value is
\* returned and the entry stays; the except clause, which deletes it, is
\* entered only when connect() raises, and connect() catches its failures
create_bridge_end(m, a, ret) == m

\* get_bridge_info: 'total_bridges' and 'connected_bridges'
total_bridges(m) == Cardinality({a \in DOMAIN m : m[a] # 0})
connected_bridges(m, B) ==
    Cardinality({a \in DOMAIN m : m[a] # 0 /\ B[m[a]].state = CONNECTED})

Why(admission) == IF admission = "ok" THEN "" ELSE admission

(***************************************************************************)
(* BLESerialBridge.disconnect_device(a), up to the first await of          *)
(* RNodeBridge.disconnect.                                                 *)
(***************************************************************************)
DisconnectDevice(a) ==
    /\ UNCHANGED <<io, env, pm, probe, sup>>
    /\ UNCHANGED <<discovered_devices, is_running, monitor, stopper, now>>
    /\ IF bridges[a] = 0
       THEN /\ ev' = NoEvent
            /\ UNCHANGED <<bridges, br, symlink, tasks, hist>>
       ELSE LET b == bridges[a]
                R == bridge_disconnect(br[b], symlink[a])
            IN  /\ br' = [br EXCEPT ![b] = R.B]
                /\ symlink' = [symlink EXCEPT ![a] = R.L]
                /\ ev' = NoEvent
                /\ IF R.pc # ""
                   THEN /\ tasks' = tasks \cup {Task("disconnect_device", b, R)}
                        /\ hist' = HistCall(hist)
                        /\ UNCHANGED bridges
                   ELSE /\ bridges' = DelBridge(bridges, a)
                        /\ hist' = HistDisconnected(HistCall(hist), tasks, NoTask, b)
                        /\ UNCHANGED tasks

(***************************************************************************)
(* RNodeBridge.reconnect() called on bridge b by a user of the class, up   *)
(* to its first await.                                                     *)
(***************************************************************************)
ReconnectCall(b, ptyok) ==
    /\ UNCHANGED <<io, env, pm, probe, sup>>
    /\ Born(b)
    /\ UNCHANGED <<discovered_devices, bridges, is_running, monitor, stopper, now>>
    /\ LET a == br[b].addr
           R == bridge_reconnect(br[b], symlink[a], now, ptyok)
       IN  /\ br' = [br EXCEPT ![b] = R.B]
           /\ symlink' = [symlink EXCEPT ![a] = R.L]
           /\ hist' = HistReturn(HistReconnect(hist, br[b], now), b, R.ret)
           /\ IF R.pc # ""
              THEN /\ tasks' = tasks \cup {Task("reconnect", b, R)}
                   /\ ev' = NoEvent
              ELSE /\ ev' = Event("reconnect", b, R.ret, Why(reconnect_admission(br[b], now)))
                   /\ UNCHANGED tasks

(***************************************************************************)
(* A suspended coroutine is resumed.  out is the outcome of the awaited    *)
(* BLE operation where it has one.                                         *)
(***************************************************************************)
Resume(t, B, L, out) ==
    CASE t.pc = "pair"    -> ble_connect_client(B, L)
      [] t.pc = "gatt"    -> ble_connect_setup(B, L, out)
      [] t.pc = "notify"  -> ble_connect_finish(B, L, out)
      [] t.pc \in {"cx_tasks", "dx_tasks", "lx_tasks", "mx_tasks"} ->
            \* the cancelled background tasks have ended
            cleanup_stop_notify([B EXCEPT !.pumps = IF @ = "ending" THEN "none" ELSE @],
                                L, FrameOf(t.pc), t.k)
      [] t.pc \in {"cx_notify", "dx_notify", "lx_notify", "mx_notify"} ->
            cleanup_finish(B, L, FrameOf(t.pc), t.k)
      [] t.pc = "d_client" -> after_ble_disconnect(B, L, t.k)
      [] t.pc = "d_start"  -> IF out = "raise" THEN bridge_disconnect_raises(B, L)
                              ELSE bridge_disconnect(B, L)
      [] t.pc = "l_start"  -> handle_connection_lost(B, L)

Outcomes(pc) ==
    CASE pc = "gatt"   -> {"ok", "fail", "auth", "nosvc"}
      [] pc = "notify" -> {"ok", "fail"}
      [] pc = "d_start" -> {"ok", "raise"}
      [] OTHER         -> {"ok"}

\* RNodeBridge.reconnect: `await self.disconnect()` is followed by connect()
Continue(op, R, ptyok) ==
    IF R.ret = "done" /\ op \in {"reconnect", "monitor"}
    THEN bridge_connect(R.B, R.L, ptyok)
    ELSE R

(***************************************************************************)
(* BLESerialBridge._monitor_worker: the for loop over the snapshot `todo`  *)
(* of the bridges, run until a reconnect() suspends or the loop ends.      *)
(* S holds the bridge objects, the symlinks and the history variables.     *)
(***************************************************************************)
RECURSIVE monitor_loop(_, _, _, _)
monitor_loop(S, todo, t, ptyok) ==
    IF todo = <<>> THEN [S EXCEPT !.todo = <<>>, !.task = NoTask]
    ELSE LET b == Head(todo)
             B == S.br[b]
         IN  IF B.state # ERROR THEN monitor_loop(S, Tail(todo), t, ptyok)
             ELSE LET R  == bridge_reconnect(B, S.link[B.addr], t, ptyok)
                      S1 == [S EXCEPT !.br[b] = R.B, !.link[B.addr] = R.L,
                                      !.hist = HistReturn(HistReconnect(S.hist, B, t), b, R.ret)]
                  IN  IF R.pc # ""
                      THEN [S1 EXCEPT !.todo = Tail(todo), !.task = Task("monitor", b, R)]
                      ELSE monitor_loop(S1, Tail(todo), t, ptyok)

MonitorState(brf, linkf, h) ==
    [br |-> brf, link |-> linkf, hist |-> h, todo |-> <<>>, task |-> NoTask]

\* list(self.bridges.items()): entries in insertion order, which is the order
\* in which the bridges were constructed
RECURSIVE Snapshot(_, _)
Snapshot(m, b) ==
    IF b > MaxBridges THEN <<>>
    ELSE (IF \E a \in DOMAIN m : m[a] = b THEN <<b>> ELSE <<>>) \o Snapshot(m, b + 1)

MonitorApply(S, others) ==
    /\ br' = S.br
    /\ symlink' = S.link
    /\ hist' = S.hist
    /\ IF S.task = NoTask
       THEN /\ monitor' = [pc |-> "sleep", todo |-> <<>>]
            /\ tasks' = others
       ELSE /\ monitor' = [pc |-> "busy", todo |-> S.todo]
            /\ tasks' = others \cup {S.task}

\* the monitor task wakes from asyncio.sleep
MonitorWake(ptyok) ==
    /\ UNCHANGED <<io, env, pm, probe, sup>>
    /\ monitor.pc = "sleep"
    /\ ev' = NoEvent
    /\ UNCHANGED <<discovered_devices, bridges, is_running, stopper, now>>
    /\ IF ~is_running
       THEN /\ monitor' = [pc |-> "none", todo |-> <<>>]
            /\ UNCHANGED <<br, symlink, tasks, hist>>
       ELSE MonitorApply(monitor_loop(MonitorState(br, symlink, hist),
                                      Snapshot(bridges, 1), now, ptyok), tasks)

\* t awaits the cancelled background tasks of its bridge while
\* _connection_monitor, which swallows the cancellation, is still running
\* _handle_connection_lost
AwaitsMonitor(t) ==
    /\ t.pc \in {"cx_tasks", "dx_tasks", "lx_tasks"}
    /\ \E u \in tasks : u.op = "connmon" /\ u.b = t.b

TaskStep(t, out, ptyok) ==
    /\ UNCHANGED <<io, env, pm, probe, sup>>
    /\ t \in tasks
    /\ ~AwaitsMonitor(t)
    /\ out \in Outcomes(t.pc)
    /\ UNCHANGED <<discovered_devices, is_running, stopper, now>>
    /\ LET B    == br[t.b]
           a    == B.addr
           R    == Continue(t.op, Resume(t, B, symlink[a], out), ptyok)
           br1  == [br EXCEPT ![t.b] = R.B]
           ln1  == [symlink EXCEPT ![a] = R.L]
           h0   == HistReturn(hist, t.b, R.ret)
           h1   == IF R.ret = "raised" THEN [h0 EXCEPT !.raised = @ \cup {t.b}]
                   ELSE IF R.pc = "" /\ t.op \in {"disconnect_device", "stop"}
                   THEN HistDisconnected(h0, tasks, t, t.b) ELSE h0
           rest == tasks \ {t}
           why  == IF t.pc \in {"gatt", "notify", "cx_tasks", "cx_notify"} \/ t.k = "gattfail"
                   THEN "gatt" ELSE ""
       IN  IF R.pc # ""
           THEN /\ tasks' = rest \cup {Task(t.op, t.b, R)}
                /\ br' = br1 /\ symlink' = ln1 /\ hist' = h1
                /\ ev' = NoEvent
                /\ UNCHANGED <<bridges, monitor>>
           ELSE IF t.op = "monitor"
           THEN /\ MonitorApply(monitor_loop(MonitorState(br1, ln1, h1),
                                             monitor.todo, now, ptyok), rest)
                /\ ev' = Observe(t.op, t.b, R.ret, why)
                /\ UNCHANGED bridges
           ELSE /\ tasks' = rest
                /\ br' = br1 /\ symlink' = ln1 /\ hist' = h1
                /\ UNCHANGED monitor
                /\ IF t.op = "disconnect_device"
                   THEN /\ bridges' = DelBridge(bridges, a)
                        /\ ev' = NoEvent
                   ELSE /\ bridges' = IF t.op = "connect_device"
                                      THEN create_bridge_end(bridges, a, R.ret)
                                      ELSE bridges
                        /\ ev' = Observe(t.op, t.b, R.ret, why)

(***************************************************************************)
(* BLESerialBridge.start and stop.                                         *)
(***************************************************************************)
Start ==
    /\ UNCHANGED <<io, env, pm, probe, sup>>
    /\ stopper = "idle"
    /\ UNCHANGED <<discovered_devices, bridges, br, symlink, tasks, stopper, now>>
    /\ IF is_running
       THEN /\ ev' = NoEvent
            /\ UNCHANGED <<is_running, monitor, hist>>
       ELSE /\ is_running' = TRUE
            /\ monitor' = [pc |-> "sleep", todo |-> <<>>]
            /\ hist' = HistCall(hist)
            /\ ev' = NoEvent

\* task.cancel() on a coroutine suspended at t.pc.  The awaits on the
\* cancelled background tasks sit in `except asyncio.CancelledError: pass`,
\* which swallows the cancellation; everywhere else the CancelledError
\* unwinds the coroutine (no `except Exception` catches it), through the
\* finally clause of BLEGATTClient.connect when that is on the stack.
CancelSwallowed(t) == t.pc \in {"cx_tasks", "dx_tasks", "lx_tasks", "mx_tasks"}
CancelUnwind(t, B) ==
    IF t.pc \in {"pair", "gatt", "notify", "cx_notify"}
    THEN [B EXCEPT !.is_connecting = FALSE] ELSE B

MonitorTasks == {t \in tasks : t.op = "monitor"}

\* stop() up to `await self._monitor_task`
StopCall ==
    /\ UNCHANGED <<io, env, pm, probe, sup>>
    /\ UNCHANGED <<discovered_devices, bridges, symlink, now>>
    /\ IF ~is_running
       THEN /\ ev' = NoEvent
            /\ UNCHANGED <<is_running, br, tasks, monitor, stopper, hist>>
       ELSE /\ is_running' = FALSE
            /\ stopper' = "s_mon"
            /\ hist' = HistCall(hist)
            /\ ev' = NoEvent
            /\ IF \E t \in MonitorTasks : ~CancelSwallowed(t)
               THEN LET t == CHOOSE u \in MonitorTasks : TRUE
                    IN  /\ tasks' = tasks \ {t}
                        /\ br' = [br EXCEPT ![t.b] = CancelUnwind(t, @)]
                        /\ monitor' = [pc |-> "none", todo |-> <<>>]
               ELSE /\ monitor' = IF monitor.pc = "sleep"
                                  THEN [pc |-> "none", todo |-> <<>>] ELSE monitor
                    /\ UNCHANGED <<br, tasks>>

\* stop() after the monitor task has ended: _disconnect_all_bridges up to
\* `await asyncio.gather(...)`
StopGather ==
    /\ UNCHANGED <<io, env, pm, probe, sup>>
    /\ stopper = "s_mon"
    /\ monitor.pc = "none"
    /\ UNCHANGED <<discovered_devices, is_running, br, symlink, monitor, now>>
    /\ LET kids == {bridges[a] : a \in {x \in DOMAIN bridges : bridges[x] # 0}}
       IN  IF kids = {}
           THEN /\ stopper' = "idle"
                /\ ev' = NoEvent
                /\ hist' = [hist EXCEPT !.quiesced = TRUE]
                /\ UNCHANGED <<bridges, tasks>>
           ELSE /\ stopper' = "s_gather"
                /\ tasks' = tasks \cup {[op |-> "stop", b |-> b, pc |-> "d_start", k |-> ""] : b \in kids}
                /\ ev' = NoEvent
                /\ UNCHANGED <<bridges, hist>>

gather_propagates(m, exceptions) ==
    IF exceptions # {} THEN m ELSE [a \in DOMAIN m |-> 0]

\* asyncio.gather(*tasks, return_exceptions=True) has collected the results
\* and the exceptions of the disconnect() calls: self.bridges.clear()
disconnect_all_bridges_end(m, exceptions) == [a \in DOMAIN m |-> 0]

\* stop() after the gather: self.bridges.clear(), and stop() returns
StopFinish ==
    /\ UNCHANGED <<io, env, pm, probe, sup>>
    /\ stopper = "s_gather"
    /\ ~ \E t \in tasks : t.op = "stop"
    /\ stopper' = "idle"
    /\ bridges' = disconnect_all_bridges_end(bridges, hist.raised)
    /\ ev' = NoEvent
    /\ hist' = [hist EXCEPT !.quiesced = TRUE]
    /\ UNCHANGED <<discovered_devices, is_running, br, symlink, tasks, monitor, now>>

(***************************************************************************)
(* The peripheral.                                                         *)
(***************************************************************************)
\* the connection to the peripheral of bridge b is lost; the BLE stack calls
\* BLEGATTClient._on_disconnect, which creates a task for
\* _handle_connection_lost
LinkDrop(b) ==
    /\ UNCHANGED <<io, env, pm, probe, sup>>
    /\ Born(b)
    /\ br[b].client = "up"
    /\ br' = [br EXCEPT ![b].client = "down"]
    /\ tasks' = tasks \cup {[op |-> "lost", b |-> b, pc |-> "l_start", k |-> ""]}
    /\ ev' = NoEvent
    /\ UNCHANGED <<discovered_devices, bridges, is_running, symlink, monitor, stopper, now, hist>>

\* _connection_monitor wakes from its sleep while is_connected is still set
\* and finds the client not connected
ConnMonitorDetect(b) ==
    /\ UNCHANGED <<io, env, pm, probe, sup>>
    /\ Born(b)
    /\ br[b].pumps = "alive" /\ br[b].is_connected /\ br[b].client # "up"
    /\ LET a == br[b].addr
           R == monitor_connection_lost(br[b], symlink[a])
       IN  /\ br' = [br EXCEPT ![b] = R.B]
           /\ symlink' = [symlink EXCEPT ![a] = R.L]
           /\ tasks' = IF R.pc # "" THEN tasks \cup {Task("connmon", b, R)} ELSE tasks
    /\ ev' = NoEvent
    /\ UNCHANGED <<discovered_devices, bridges, is_running, monitor, stopper, now, hist>>

Tick ==
    /\ UNCHANGED <<io, env, pm, probe, sup>>
    /\ now < StartTime + MaxTicks * TickStep
    /\ now' = now + TickStep
    /\ ev' = NoEvent
    /\ UNCHANGED <<discovered_devices, bridges, is_running, br, symlink, tasks, monitor, stopper, hist>>

(***************************************************************************)
(* Host to device: the PTY read thread hands each read to                  *)
(* BLEGATTClient.send_data, _tx_worker writes the queued frames to the RX  *)
(* characteristic in chunks of max_chunk_size bytes.                       *)
(***************************************************************************)
\* the k-th frame read from the PTY master, n bytes long: no byte value
\* occurs twice in the frames of one behaviour
Frame(k, n) == [j \in 1..n |-> (32 * k + j) % 256]

\* the k-th of the at most `per` items that enter at bridge b is numbered so
\* that the items of two bridges differ in every byte
Numbered(b, k, per) == (b - 1) * per + k

ble_client_shared(b) == 1

\* RNodeBridge.__init__: self.ble_client = BLEGATTClient(rnode) and
\* self.virtual_serial = VirtualSerialPort(...), an object of its own for
\* each bridge with its own Queue objects; io is indexed by the object
ble_client(b) == b
virtual_serial(b) == b

\* BLEGATTClient.send_data
send_data(B, q, data) == IF ~B.is_connected THEN q ELSE Append(q, data)

\* VirtualSerialPort._read_worker reads n bytes written by the host and
\* calls the data callback, RNodeBridge._on_serial_data_received
PtyRead(b, n) ==
    /\ Born(b) /\ br[b].is_open /\ br[b].master_fd /\ io[b].reading
    /\ Len(io[b].read) < MaxFrames
    /\ LET data == Frame(Numbered(b, Len(io[b].read) + 1, MaxFrames), n)
           c    == ble_client(b)
       IN  io' = [io EXCEPT ![b].read = Append(@, data),
                            ![c].tx_queue = send_data(br[c], @, data)]
    /\ ev' = NoEvent
    /\ UNCHANGED ctl

\* _tx_worker: tx_queue.get_nowait(); a frame is sent only when the client
\* and the RX characteristic exist
TxGet(b) ==
    /\ Born(b) /\ br[b].pumps = "alive" /\ br[b].is_connected
    /\ io[b].data = <<>> /\ io[b].tx_queue # <<>>
    /\ io' = [io EXCEPT ![b].tx_queue = Tail(@),
                         ![b].data = IF br[b].client # "none" /\ br[b].chars
                                     THEN Head(io[b].tx_queue) ELSE <<>>,
                         ![b].taken = IF br[b].client # "none" /\ br[b].chars
                                      THEN Append(@, Head(io[b].tx_queue)) ELSE @,
                         ![b].i = 0]
    /\ ev' = NoEvent
    /\ UNCHANGED ctl

Chunk_overlap(data, i) ==
    SubSeq(data, i + 1, IF i + max_chunk_size + 1 < Len(data) THEN i + max_chunk_size + 1 ELSE Len(data))

\* data[i:i + max_chunk_size]
Chunk(data, i) ==
    SubSeq(data, i + 1, IF i + max_chunk_size < Len(data) THEN i + max_chunk_size ELSE Len(data))

\* _tx_worker: one write_gatt_char of the for loop.  When it raises, the
\* frame is put on tx_queue again (Queue.put) and the loop is left.
TxWrite(b, ok) ==
    /\ Born(b) /\ br[b].pumps = "alive"
    /\ io[b].data # <<>>
    /\ IF ok
       THEN LET next == io[b].i + max_chunk_size
                done == next >= Len(io[b].data)
            IN  io' = [io EXCEPT ![b].wire = Append(@, Chunk(io[b].data, io[b].i)),
                                 ![b].i = IF done THEN 0 ELSE next,
                                 ![b].data = IF done THEN <<>> ELSE @]
       ELSE /\ io[b].failures < MaxWriteFailures
            /\ io' = [io EXCEPT ![b].tx_queue = Append(@, io[b].data),
                                 ![b].data = <<>>,
                                 ![b].i = 0,
                                 ![b].failures = @ + 1]
    /\ ev' = NoEvent
    /\ UNCHANGED ctl

(***************************************************************************)
(* Device to host: a notification of the TX characteristic is handed to    *)
(* VirtualSerialPort.send_data, _write_worker writes the queued payloads   *)
(* to the PTY master.                                                      *)
(***************************************************************************)
\* the payload of the k-th notification
Payload(k) == <<128 + k>>

\* VirtualSerialPort.send_data
serial_send_data(B, q, data) == IF ~B.is_open THEN q ELSE Append(q, data)

\* BLEGATTClient._on_data_received with the data callback,
\* RNodeBridge._on_ble_data_received
Notification(b) ==
    /\ Born(b) /\ br[b].is_connected /\ br[b].client = "up" /\ br[b].chars
    /\ io[b].notes < MaxNotes
    /\ LET data == Payload(Numbered(b, io[b].notes + 1, MaxNotes))
           p    == virtual_serial(b)
       IN  io' = [io EXCEPT ![b].notes = @ + 1,
                            ![p].rx_queue = serial_send_data(br[p], @, data)]
    /\ ev' = NoEvent
    /\ UNCHANGED ctl

\* _write_worker: rx_queue.get
RxGet(b) ==
    /\ Born(b) /\ br[b].is_open /\ br[b].master_fd /\ io[b].writing
    /\ io[b].out = <<>> /\ io[b].rx_queue # <<>>
    /\ io' = [io EXCEPT ![b].rx_queue = Tail(@), ![b].out = Head(io[b].rx_queue)]
    /\ ev' = NoEvent
    /\ UNCHANGED ctl

\* _write_worker: os.write(master_fd, data).  res is "ok", "ebadf" or
\* "epipe" (an OSError with errno 9 or 32: the thread leaves its loop) or
\* "eio" (another OSError: the payload is put on rx_queue again)
RxWrite(b, res) ==
    /\ Born(b) /\ io[b].writing
    /\ io[b].out # <<>>
    /\ IF ~br[b].master_fd
       THEN io' = [io EXCEPT ![b].out = <<>>] /\ ev' = NoEvent
       ELSE CASE res = "ok" ->
                   /\ io' = [io EXCEPT ![b].pty = Append(@, io[b].out), ![b].out = <<>>]
                   /\ ev' = NoEvent
              [] res \in {"ebadf", "epipe"} ->
                   /\ io' = [io EXCEPT ![b].out = <<>>, ![b].writing = FALSE]
                   /\ ev' = Event("os.write", b, "", res)
              [] res = "eio" ->
                   /\ io[b].requeued < MaxWriteFailures
                   /\ io' = [io EXCEPT ![b].rx_queue = Append(@, io[b].out),
                                        ![b].out = <<>>,
                                        ![b].requeued = @ + 1]
                   /\ ev' = Event("os.write", b, "", res)
    /\ UNCHANGED ctl

\* _read_worker: select or os.read raises, the thread leaves its loop
PtyReadError(b) ==
    /\ Born(b) /\ br[b].is_open /\ br[b].master_fd /\ io[b].reading
    /\ io' = [io EXCEPT ![b].reading = FALSE]
    /\ ev' = NoEvent
    /\ UNCHANGED ctl

(***************************************************************************)
(* A VirtualSerialPort used on its own: RNodeBridge objects are            *)
(* constructed, which constructs their endpoints, and open() and close()   *)
(* of an endpoint are called at any time.  Endpoints of one address have   *)
(* one device_name and so one symlink path; another process may leave an   *)
(* entry at the path while no link is there.                               *)
(***************************************************************************)
PtyIdle == UNCHANGED <<discovered_devices, bridges, is_running, tasks, monitor,
                       stopper, now, io, env, pm, probe, sup>>

Construct(a) ==
    /\ Unborn # {}
    /\ br' = [br EXCEPT ![NextId] = NewBridge(NextId, a)]
    /\ ev' = NoEvent
    /\ UNCHANGED <<symlink, hist>>
    /\ PtyIdle

PtyOpen(b, ok) ==
    /\ Born(b)
    /\ LET a == br[b].addr
           R == pty_open(br[b], symlink[a], ok)
       IN  /\ br' = [br EXCEPT ![b] = R.B]
           /\ symlink' = [symlink EXCEPT ![a] = R.L]
           /\ ev' = Event("open", b, R.ret,
                          IF ~br[b].is_open /\ symlink[a] # 0 THEN "replaced" ELSE "")
           /\ hist' = IF R.B.is_open THEN [hist EXCEPT !.closes[b] = 0] ELSE hist
    /\ PtyIdle

PtyClose(b) ==
    /\ Born(b)
    /\ hist.closes[b] < MaxCloses
    /\ hist' = IF hist.closes[b] >= 0 THEN [hist EXCEPT !.closes[b] = @ + 1] ELSE hist
    /\ LET a == br[b].addr
           R == pty_close(br[b], symlink[a])
       IN  /\ br' = [br EXCEPT ![b] = R.B]
           /\ symlink' = [symlink EXCEPT ![a] = R.L]
           /\ ev' = Event("close", b, "done", IF br[b].is_open THEN "" ELSE "closed")
    /\ PtyIdle

StaleLink(a) ==
    /\ symlink[a] = 0
    /\ symlink' = [symlink EXCEPT ![a] = Stale]
    /\ ev' = NoEvent
    /\ UNCHANGED <<br, hist>>
    /\ PtyIdle

\* at most MaxTasks coroutines are suspended at a time
Bounded == Cardinality(tasks') <= MaxTasks

(***************************************************************************)
(* Spec: the bridge service with its control API (scan, connect_device,    *)
(* disconnect_device, start, stop), its monitor loop and the peripheral.   *)
(***************************************************************************)
Next ==
    \/ \E S \in SUBSET Addresses : ScanForRnodes(S)
    \/ \E a \in Addresses, ptyok \in BOOLEAN : ConnectDevice(a, ptyok) /\ Bounded
    \/ \E a \in Addresses : DisconnectDevice(a) /\ Bounded
    \/ \E t \in tasks, out \in {"ok", "fail", "auth", "nosvc"}, ptyok \in BOOLEAN :
           TaskStep(t, out, ptyok) /\ Bounded
    \/ \E ptyok \in BOOLEAN : MonitorWake(ptyok) /\ Bounded
    \/ Start
    \/ StopCall
    \/ StopGather /\ Bounded
    \/ StopFinish
    \/ \E b \in BridgeIds : LinkDrop(b) /\ Bounded

Spec == Init /\ [][Next]_vars

(***************************************************************************)
(* SpecReconnect: one RNodeBridge whose reconnect() is called by a user of *)
(* the class at any time, with the clock advancing; the peripheral accepts *)
(* or rejects each connection attempt.                                     *)
(***************************************************************************)
NextReconnect ==
    \/ \E S \in SUBSET Addresses : ScanForRnodes(S)
    \/ \E a \in Addresses, ptyok \in BOOLEAN : ConnectDevice(a, ptyok) /\ Bounded
    \/ \E b \in BridgeIds, ptyok \in BOOLEAN : ReconnectCall(b, ptyok) /\ Bounded
    \/ \E t \in tasks, out \in {"ok", "fail", "auth", "nosvc"}, ptyok \in BOOLEAN :
           TaskStep(t, out, ptyok) /\ Bounded
    \/ Tick

SpecReconnect == Init /\ [][NextReconnect]_vars

(***************************************************************************)
(* SpecRecover: the running service with its monitor loop.  The peripheral *)
(* rejects or accepts connections and drops links, until it starts to      *)
(* accept every connection; the PTY of a reconnect can be opened.  The     *)
(* event loop runs every coroutine that is ready (the awaited BLE          *)
(* operations end), the monitor wakes from its sleep again and again, and  *)
(* the clock advances: weak fairness of these steps.                       *)
(***************************************************************************)
\* the peripheral accepts connections from now on
PeripheralAccepts ==
    /\ ~env.accepts
    /\ env' = [env EXCEPT !.accepts = TRUE]
    /\ ev' = NoEvent
    /\ UNCHANGED <<discovered_devices, bridges, is_running, br, symlink, tasks,
                   monitor, stopper, now, hist, io, pm, probe, sup>>

\* a coroutine is resumed; the awaited BLE operation succeeds when the
\* peripheral accepts connections
RecoverStep(t, out) ==
    /\ env.accepts => out = "ok"
    /\ TaskStep(t, out, TRUE)

RunTasks(op) ==
    \E t \in tasks, out \in {"ok", "fail", "auth", "nosvc"} :
        t.op = op /\ RecoverStep(t, out) /\ Bounded

NextRecover ==
    \/ \E S \in SUBSET Addresses : ScanForRnodes(S)
    \/ \E a \in Addresses, ptyok \in BOOLEAN : ConnectDevice(a, ptyok) /\ Bounded
    \/ Start
    \/ MonitorWake(TRUE) /\ Bounded
    \/ \E op \in {"connect_device", "monitor", "lost"} : RunTasks(op)
    \/ \E b \in BridgeIds : LinkDrop(b) /\ Bounded
    \/ PeripheralAccepts
    \/ Tick

\* the monitor loop, asleep, has a bridge in Error whose reconnect() would
\* be admitted: its next pass is a step
MonitorDue ==
    /\ monitor.pc = "sleep" /\ is_running
    /\ \E a \in Addresses :
          /\ bridges[a] # 0 /\ br[bridges[a]].state = ERROR
          /\ reconnect_admission(br[bridges[a]], now) = "ok"

\* asyncio.sleep(10.0) of the monitor loop ends: a monitor that is due
\* again and again makes its pass again and again
SpecRecover ==
    /\ Init /\ [][NextRecover]_vars
    /\ ([]<>~MonitorDue \/ []<><<MonitorWake(TRUE) /\ Bounded>>_vars)
    /\ \A op \in {"connect_device", "monitor", "lost"} : WF_vars(RunTasks(op))
    /\ WF_vars(Tick)

(***************************************************************************)
(* SpecDiscovery: scans followed step by step, with connect_device and     *)
(* disconnect_device called at any time; the peripheral rejects            *)
(* connections until it starts to accept them.                             *)
(***************************************************************************)
NextDiscovery ==
    \/ ScanStart("manual")
    \/ \E a \in Addresses, r \in Rssis : Sight(a, r)
    \/ ScanStop("manual")
    \/ \E a \in Addresses, ptyok \in BOOLEAN : ConnectDevice(a, ptyok) /\ Bounded
    \/ \E a \in Addresses : DisconnectDevice(a) /\ Bounded
    \/ \E t \in tasks, out \in {"ok", "fail", "auth", "nosvc"} : RecoverStep(t, out) /\ Bounded
    \/ PeripheralAccepts

SpecDiscovery == Init /\ [][NextDiscovery]_vars

(***************************************************************************)
(* SpecProbe: verify_rnode_compatibility is called on any peripheral of    *)
(* Peripherals.                                                            *)
(***************************************************************************)
NextProbe == Probe

SpecProbe == InitProbe /\ [][NextProbe]_vars

(***************************************************************************)
(* SpecScan: the scans of one caller, which awaits each scan before it     *)
(* starts the next, with the advertisements they hear.                     *)
(***************************************************************************)
NextScan ==
    \/ ScanStart("manual")
    \/ \E a \in ScanAddrs, r \in Rssis : Sight(a, r)
    \/ ScanStop("manual")

SpecScan == Init /\ [][NextScan]_vars

(***************************************************************************)
(* SpecScanRace: scan_for_devices is called while _discovery_worker runs;  *)
(* each of the two awaits its own scans only.                              *)
(***************************************************************************)
NextScanRace ==
    \/ \E who \in Scanners : ScanStart(who)
    \/ \E a \in ScanAddrs, r \in Rssis : Sight(a, r)
    \/ \E who \in Scanners : ScanStop(who)

SpecScanRace == Init /\ [][NextScanRace]_vars

(***************************************************************************)
(* SpecPairing: the pairing manager with its PIN cache, pair_with_pin      *)
(* calls that may overlap, and the confirmation requests of the BLE        *)
(* stack.  SpecPairRace: pair_with_pin calls alone.                        *)
(***************************************************************************)
NextPairRace ==
    \/ \E a \in PairAddrs, pin \in PinStrings : PairStart(a, pin)
    \/ \E c \in PairCalls, success \in BOOLEAN : PairFinish(c, success)

SpecPairRace == Init /\ [][NextPairRace]_vars

NextPairing ==
    \/ \E a \in PairAddrs, pin \in PinStrings : StorePin(a, pin)
    \/ \E a \in PairAddrs : ClearPin(a)
    \/ \E a \in PairAddrs : SetPairingCallback(a)
    \/ \E a \in PairAddrs, pin \in PinStrings : PairStart(a, pin)
    \/ \E c \in PairCalls, success \in BOOLEAN : PairFinish(c, success)
    \/ \E a \in PairAddrs, pin \in PinInts : ConfirmPin(a, pin)

SpecPairing == Init /\ [][NextPairing]_vars

(***************************************************************************)
(* SpecPty: the PTY endpoints of the bridges used on their own.            *)
(***************************************************************************)
NextPty ==
    \/ \E a \in Addresses : Construct(a)
    \/ \E b \in BridgeIds, ok \in BOOLEAN : PtyOpen(b, ok)
    \/ \E b \in BridgeIds : PtyClose(b)
    \/ \E a \in Addresses : StaleLink(a)

SpecPty == Init /\ [][NextPty]_vars

(***************************************************************************)
(* SpecLoss: bridges are connected, disconnected and lose their links; a   *)
(* loss is reported by the BLE stack and may be found by                   *)
(* _connection_monitor too.                                                *)
(***************************************************************************)
NextLoss ==
    \/ \E S \in SUBSET Addresses : ScanForRnodes(S)
    \/ \E a \in Addresses, ptyok \in BOOLEAN : ConnectDevice(a, ptyok) /\ Bounded
    \/ \E a \in Addresses : DisconnectDevice(a) /\ Bounded
    \/ \E t \in tasks, out \in {"ok", "fail", "auth", "nosvc"}, ptyok \in BOOLEAN :
           TaskStep(t, out, ptyok) /\ Bounded
    \/ \E b \in BridgeIds : LinkDrop(b) /\ Bounded
    \/ \E b \in BridgeIds : ConnMonitorDetect(b) /\ Bounded

SpecLoss == Init /\ [][NextLoss]_vars

(***************************************************************************)
(* SpecData: a bridge is connected and the host writes frames to its       *)
(* serial port; the link stays up, single writes to the RX characteristic  *)
(* may fail.                                                               *)
(***************************************************************************)
NextData ==
    \/ \E S \in SUBSET Addresses : ScanForRnodes(S)
    \/ \E a \in Addresses, ptyok \in BOOLEAN : ConnectDevice(a, ptyok) /\ Bounded
    \/ \E t \in tasks, out \in {"ok", "fail", "auth", "nosvc"}, ptyok \in BOOLEAN :
           TaskStep(t, out, ptyok) /\ Bounded
    \/ \E b \in BridgeIds, n \in FrameLens : PtyRead(b, n)
    \/ \E b \in BridgeIds : TxGet(b)
    \/ \E b \in BridgeIds, ok \in BOOLEAN : TxWrite(b, ok)
    \/ \E b \in BridgeIds : Notification(b)
    \/ \E b \in BridgeIds : RxGet(b)
    \/ \E b \in BridgeIds, res \in {"ok", "ebadf", "epipe", "eio"} : RxWrite(b, res)
    \/ \E b \in BridgeIds : PtyReadError(b)

SpecData == Init /\ [][NextData]_vars

(***************************************************************************)
(* Properties of the bridge service, checked under Spec.                   *)
(***************************************************************************)
Closed(B) == ~B.is_open /\ ~B.master_fd /\ ~B.slave_fd

\* C1: for every address, there are never two RNodeBridge objects for it
\* that are both in a state other than Disconnected.
AtMostOneBridge ==
    \A b, c \in BridgeIds :
        (b # c /\ Born(b) /\ Born(c) /\ br[b].addr = br[c].addr)
            => (br[b].state = DISCONNECTED \/ br[c].state = DISCONNECTED)

\* C2: in every reachable state, a bridge whose state is Connected has its
\* PTY endpoint open and its GATT link connected.
ConnectedHasBothEndpoints ==
    \A b \in BridgeIds :
        (Born(b) /\ br[b].state = CONNECTED) => (br[b].is_open /\ br[b].is_connected)

\* C6: whenever RNodeBridge.connect() returns false because the GATT connect
\* failed, the PTY endpoint of the bridge is closed (is_open false, both fds
\* released, its symlink removed) and the bridge state is Error.
NoHalfOpenPort ==
    (ev.ret = "false" /\ ev.why = "gatt") =>
        /\ Closed(br[ev.b])
        /\ symlink[br[ev.b].addr] # ev.b
        /\ br[ev.b].state = ERROR

\* a connect() called by connect_device has just returned false because the
\* GATT connect failed
GattFailureReturned ==
    ev.op = "connect_device" /\ ev.ret = "false" /\ ev.why = "gatt"

\* C7: after RNodeBridge.disconnect() has returned, the bridge is
\* Disconnected with both endpoints torn down, and stays so until connect()
\* is called on it again.
StaysDisconnected ==
    \A b \in BridgeIds :
        hist.torn[b] =>
            (br[b].state = DISCONNECTED /\ Closed(br[b]) /\ ~br[b].is_connected)

\* C8: after BLESerialBridge.stop() has returned, the bridges map is empty,
\* no PTY endpoint is open, no symlink exists and no GATT link is connected.
StoppedIsClean ==
    hist.quiesced =>
        /\ \A a \in Addresses : bridges[a] = 0 /\ symlink[a] = 0
        /\ \A b \in BridgeIds :
              Born(b) => (Closed(br[b]) /\ ~br[b].is_connected /\ br[b].client # "up")

(***************************************************************************)
(* Properties of the monitor loop, checked under SpecRecover.              *)
(***************************************************************************)
\* the last time at which a reconnect() can still pass its cooldown before
\* the clock of the model stops
LastCall == StartTime + MaxTicks * TickStep - Cooldown

\* the service is running and bridge b, in its map, is in Error with fewer
\* than max_reconnect_attempts attempts consumed
Recoverable(b) ==
    /\ is_running /\ Born(b) /\ bridges[br[b].addr] = b
    /\ br[b].state = ERROR
    /\ br[b].reconnect_attempts < max_reconnect_attempts
    /\ now <= LastCall

\* the clock of the model has passed LastCall while bridge b still has
\* attempts left: the model cannot follow b any further
ClockStopped(b) ==
    now > LastCall /\ br[b].reconnect_attempts < max_reconnect_attempts

\* C16: while the service is running, a bridge in Error with fewer than
\* max_reconnect_attempts attempts consumed eventually gets a reconnect()
\* of the monitor loop admitted, and, when the peripheral accepts
\* connections from then on, eventually is Connected with its attempt
\* counter back at 0 (or the clock of the model stops first).
RecoveryLiveness ==
    \A b \in BridgeIds :
        /\ Recoverable(b) ~> (hist.lastAdmit[b] = now \/ br[b].state # ERROR)
        /\ (Recoverable(b) /\ env.accepts)
              ~> \/ br[b].state = CONNECTED /\ br[b].reconnect_attempts = 0
                 \/ ClockStopped(b)

(***************************************************************************)
(* Properties of discovery and connect_device, checked under               *)
(* SpecDiscovery.                                                          *)
(***************************************************************************)
\* C17: connect_device(a) for an address a that is not in the discovery
\* cache returns false, creates no bridge and starts no connection, and
\* leaves the bridges map as it was.
UnknownAddressRejected ==
    [][\A a \in Addresses :
          (a \notin discovered_devices /\ ConnectDevice(a, TRUE)) =>
              /\ ev'.op = "connect_device" /\ ev'.ret = "false"
              /\ bridges' = bridges /\ br' = br
              /\ symlink' = symlink /\ tasks' = tasks]_vars

\* connect_device was called with an address that the cache, cleared by a
\* scan, does not hold, and returned false
RejectedAsNotFound ==
    /\ ev.op = "connect_device" /\ ev.ret = "false" /\ ev.why = "notfound"
    /\ discovered_devices = {} /\ hist.scans > 0

\* C18: an address sighted by a scan stays in the discovery cache in every
\* later state, while a later scan runs and after a later scan that did not
\* sight it.
CacheKept == env.sighted \subseteq discovered_devices

\* C19: after connect_device(a) has returned false because the peripheral
\* rejected the connection, a connect_device(a) made when the peripheral
\* accepts connections starts a new connection attempt.
RetryConnects ==
    [][\A a \in Addresses :
          (/\ ev.op = "connect_device" /\ ev.ret = "false" /\ ev.why = "gatt"
           /\ bridges[a] = ev.b /\ a \in discovered_devices
           /\ env.accepts
           /\ ConnectDevice(a, TRUE)) =>
              \E t \in tasks' \ tasks : t.op = "connect_device" /\ t.b = bridges'[a]]_vars

\* C20: when the GATT connect of a bridge fails with a pairing or
\* authentication error, a pairing_required event is delivered through the
\* pairing callback in that step, before connect returns false.
PairingRequiredDelivered ==
    [][\A t \in tasks :
          (t.pc = "gatt" /\ TaskStep(t, "auth", TRUE)) =>
              br'[t.b].pairing_required]_vars

(***************************************************************************)
(* Properties of the pairing manager, checked under SpecPairing and        *)
(* SpecPairRace.                                                           *)
(***************************************************************************)
\* C21: address strings are compared without regard to letter case: for two
\* strings that differ only in case the PIN cache holds the same PIN.
AddressesFoldCase ==
    \A a, b \in PairAddrs :
        Lower(a) = Lower(b) => get_stored_pin(pm, a) = get_stored_pin(pm, b)

\* C28: in the state in which pair_with_pin(address, pin) has returned, the
\* pairing state of the address is "paired" if and only if the call returned
\* true, it is "failed" (or "error") when the call returned false, and it is
\* not "pairing".
PairingStateSettled ==
    (pm.last # NoPairEvent /\ pm.last.op = "pair_with_pin") =>
        LET st == Get(pm.pairing_state, pm.last.addr)
        IN  /\ st = "paired" <=> pm.last.ret = "true"
            /\ pm.last.ret = "false" => st \in {"failed", "error"}
            /\ st # "pairing"

\* a call has returned false and left "failed" while another call for the
\* same address is waiting for the platform helper
PairFailedReturned ==
    /\ pm.last # NoPairEvent /\ pm.last.op = "pair_with_pin"
    /\ pm.last.ret = "false"
    /\ Get(pm.pairing_state, pm.last.addr) = "failed"
    /\ \E c \in DOMAIN pm.calls :
          pm.calls[c].pc = "helper" /\ pm.calls[c].addr = pm.last.addr

\* C29: on_confirm_pin(pin) returns accept in every case; when the cached
\* PIN of the address equals pin it accepts without an event, and when there
\* is no cached PIN or the cached PIN differs from pin the value reaches the
\* pairing callback registered for the address.
ConfirmPinAccepts ==
    (pm.last # NoPairEvent /\ pm.last.op = "on_confirm_pin") =>
        LET stored_pin == get_stored_pin(pm, pm.last.addr)
            equal == stored_pin # "None" /\ IntOf(stored_pin) = pm.last.pin
        IN  /\ pm.last.ret = TRUE
            /\ ~equal => pm.last.surfaced = notify_pairing_event(pm, pm.last.addr)

\* C30: when two pair_with_pin calls for one address with different PINs
\* have both returned, the cached PIN and the pairing state of the address
\* are those left by one of the two calls run last: the PIN of that call and
\* the state of its outcome.
PairCallsLinearize ==
    ( /\ Len(pm.calls) = 2
      /\ pm.calls[1].pc = "done" /\ pm.calls[2].pc = "done"
      /\ pm.calls[1].addr = pm.calls[2].addr
      /\ pm.calls[1].pin # pm.calls[2].pin )
    => \E c \in DOMAIN pm.calls :
          /\ get_stored_pin(pm, pm.calls[c].addr) = pm.calls[c].pin
          /\ Get(pm.pairing_state, pm.calls[c].addr)
                = pair_outcome(pm.calls[c].ret = "true")

LostCalledOnce ==
    \A b \in BridgeIds : Born(b) => br[b].lost_calls <= 1

(***************************************************************************)
(* Properties of RNodeBridge.reconnect, checked under SpecReconnect.       *)
(***************************************************************************)
\* the last step was a reconnect() call that was not admitted and left the
\* bridges, the symlinks and the suspended coroutines as they were
RejectedUnchanged ==
    ev'.ret = "false" /\ br' = br /\ symlink' = symlink /\ tasks' = tasks

\* C3: of the reconnect() calls on one bridge since it was constructed or
\* last connected, at most max_reconnect_attempts are admitted; a call made
\* after that returns false without disconnecting or connecting, and the
\* bridge stays as it was.
ReconnectCap ==
    /\ [](\A b \in BridgeIds : hist.admitted[b] <= max_reconnect_attempts)
    /\ [][(ev'.op = "reconnect" /\ ev'.why = "max") => RejectedUnchanged]_vars

\* a reconnect() call on a bridge in Error, made after the cooldown, has just
\* been refused because max_reconnect_attempts attempts were admitted
CapReached ==
    /\ ev.op = "reconnect" /\ ev.why = "max"
    /\ br[ev.b].state = ERROR
    /\ hist.admitted[ev.b] = max_reconnect_attempts
    /\ now - br[ev.b].last_connection_attempt >= Cooldown

\* C4: two admitted reconnect attempts on one bridge are at least Cooldown
\* seconds apart; a reconnect() call made earlier than that returns false
\* and leaves the bridge state, the attempt counter and both endpoints as
\* they were.
ReconnectCooldown ==
    /\ [](\A b \in BridgeIds : ~hist.tooSoon[b])
    /\ [][(ev'.op = "reconnect" /\ ev'.why = "soon") => RejectedUnchanged]_vars

\* a reconnect() call made less than Cooldown seconds after an admitted one
\* has just been refused
CooldownRefused ==
    /\ ev.op = "reconnect" /\ ev.why = "soon"
    /\ hist.lastAdmit[ev.b] >= 0
    /\ now - hist.lastAdmit[ev.b] < Cooldown

\* C14: the state callback of a bridge is called once for every change of
\* its state, with the new state, and is not called by an operation that
\* leaves the state as it was: the state told last is the state of the
\* bridge, and every call reported a change away from the state told before.
StateCallbackOncePerChange ==
    \A b \in BridgeIds :
        Born(b) => (br[b].cb.last = br[b].state /\ ~br[b].cb.bad)

\* a reconnect() has just returned true: its disconnect() and its connect()
\* took the bridge through Disconnected and Connecting to Connected, and the
\* state callback was told Connected last
ReconnectedAndTold ==
    /\ ev.op = "reconnect" /\ ev.ret = "true"
    /\ br[ev.b].state = CONNECTED /\ br[ev.b].cb.last = CONNECTED

\* C5: reconnect() is admitted only on a bridge in Error.
ReconnectOnlyInError ==
    [][\A b \in BridgeIds :
          hist'.lastAdmit[b] # hist.lastAdmit[b] => br[b].state = ERROR]_vars

(***************************************************************************)
(* Properties of the host-to-device data path, checked under SpecData.     *)
(***************************************************************************)
\* the number of the frame a chunk was cut from (see Frame)
FrameNo(chunk) == (chunk[1] - 1) \div 32

\* C9: for two frames accepted by send_data in the order A, B, every chunk
\* of A is written to the RX characteristic before any chunk of B, also when
\* a write of A has failed and A is sent again.
HostToDeviceInOrder ==
    \A b \in BridgeIds : \A m, n \in DOMAIN io[b].wire :
        m < n => FrameNo(io[b].wire[m]) <= FrameNo(io[b].wire[n])

RECURSIVE Flatten(_)
Flatten(chunks) ==
    IF chunks = <<>> THEN <<>> ELSE Head(chunks) \o Flatten(Tail(chunks))

Count(bytes, x) == Cardinality({j \in DOMAIN bytes : bytes[j] = x})

\* C10: the chunks written to the RX characteristic carry the bytes read
\* from the PTY master, no byte more often than it was read: no byte is
\* written twice, also when a write fails part-way through a frame and the
\* frame is sent again.
NoByteWrittenTwice ==
    \A b \in BridgeIds :
        LET written == Flatten(io[b].wire)
            given   == Flatten(io[b].read)
        IN  \A j \in DOMAIN written : Count(written, written[j]) <= Count(given, written[j])

\* ceil(n / max_chunk_size)
Writes(n) == (n + max_chunk_size - 1) \div max_chunk_size

\* the writes the first m frames of `frames` should take
RECURSIVE WritesOf(_, _)
WritesOf(frames, m) ==
    IF m = 0 THEN 0 ELSE WritesOf(frames, m - 1) + Writes(Len(frames[m]))

\* C12: while no write has failed, every frame of length n that the outgoing
\* pump has taken from the queue and finished is on the RX characteristic as
\* exactly ceil(n / max_chunk_size) writes in a row, each of at most
\* max_chunk_size bytes, whose concatenation is the frame (so the chunks are
\* in offset order), and nothing else was written.
MtuChunking ==
    \A b \in BridgeIds :
        io[b].failures = 0 =>
            LET taken == io[b].taken
                wire  == io[b].wire
                done  == IF io[b].data = <<>> THEN Len(taken) ELSE Len(taken) - 1
            IN  /\ \A m \in 1..done :
                      LET first == WritesOf(taken, m - 1) + 1
                          last  == WritesOf(taken, m)
                      IN  /\ last <= Len(wire)
                          /\ \A c \in first..last : Len(wire[c]) <= max_chunk_size
                          /\ Flatten(SubSeq(wire, first, last)) = taken[m]
                /\ Len(wire) = WritesOf(taken, done) + (io[b].i \div max_chunk_size)

\* a frame of 30 bytes has been sent as a write of 20 bytes and one of 10
ChunkedInTwo ==
    \E b \in BridgeIds :
        /\ io[b].failures = 0 /\ io[b].data = <<>>
        /\ Len(io[b].taken) = 1 /\ Len(io[b].taken[1]) = 30
        /\ Len(io[b].wire) = 2
        /\ Len(io[b].wire[1]) = 20 /\ Len(io[b].wire[2]) = 10

(***************************************************************************)
(* Properties of the device-to-host data path, checked under SpecData.     *)
(***************************************************************************)
\* the number of the notification a payload came with (see Payload)
NoteNo(data) == data[1] - 128

\* C11: the payloads of the notifications received on one link are written
\* to the PTY master in the order in which the notifications arrived, none
\* of them twice, also when a write to the PTY master has failed and the
\* payload was queued again.
DeviceToHostInOrder ==
    \A b \in BridgeIds : \A m, n \in DOMAIN io[b].pty :
        m < n => NoteNo(io[b].pty[m]) < NoteNo(io[b].pty[n])

\* C15: when the read pump or the write pump of the PTY of a Connected
\* bridge leaves its loop on an I/O error of the master fd, the bridge moves
\* to Error.
PtyErrorMovesToError ==
    [][\A b \in BridgeIds :
          ( /\ Born(b) /\ br[b].state = CONNECTED
            /\ \/ io[b].reading /\ ~io'[b].reading
               \/ io[b].writing /\ ~io'[b].writing )
          => br'[b].state = ERROR]_vars

(***************************************************************************)
(* Properties of one scan, checked under SpecScan, and of scans that       *)
(* overlap, checked under SpecScanRace.                                    *)
(***************************************************************************)
\* the state in which the scan of `who` has just returned
\* list(discovered_devices.values())
Returned(who) == ev.op = "scan_for_rnodes" /\ ev.why = who

\* C24: an address that advertised k >= 1 times during one scan is in the
\* device set once (the set is keyed by address), from its first
\* advertisement to the result the scan returns, and the discovery callbacks
\* were fired once for it in that scan; an address that did not advertise is
\* not in the result.
ScanDedup ==
    \A a \in ScanAddrs :
        /\ Heard("manual", a).n >= 1
              => a \in discovered_devices /\ Heard("manual", a).fired = 1
        /\ (Returned("manual") /\ Heard("manual", a).n = 0)
              => a \notin discovered_devices

\* a scan has returned both addresses, one heard MaxAdverts times and the
\* other once
HeardManyTimes ==
    /\ Returned("manual")
    /\ Heard("manual", "a1").n = MaxAdverts /\ Heard("manual", "a2").n = 1
    /\ discovered_devices = ScanAddrs

\* C25: in the result of a scan the rssi of each record is that of the last
\* advertisement of its address heard during the scan.
LatestRssiWins ==
    Returned("manual") =>
        \A a \in discovered_devices : env.rssi[a] = Heard("manual", a).last

\* C26: two scans never run at the same time, and the result a scan returns
\* holds every address that advertised while it ran.
ScansSerialized ==
    /\ Cardinality(env.active) <= 1
    /\ \A who \in Scanners :
          Returned(who) =>
              \A a \in ScanAddrs : Heard(who, a).n >= 1 => a \in discovered_devices

(***************************************************************************)
(* Properties of verify_rnode_compatibility, checked under SpecProbe.      *)
(***************************************************************************)
\* the peripheral lists a characteristic with the UUID and one of the
\* properties
HasChar(p, uuid, props) ==
    \E i \in DOMAIN p.chars :
        /\ uuid_lower(p.chars[i].uuid) = uuid
        /\ p.chars[i].props \cap props # {}

\* no UUID is listed twice in the service
OnePerUuid(p) ==
    \A i, j \in DOMAIN p.chars :
        uuid_lower(p.chars[i].uuid) = uuid_lower(p.chars[j].uuid) => i = j

ConnectInFlight == \E t \in tasks : t.op = "connect_device"

NextStop ==
    \/ \E S \in SUBSET TwoAddresses : ScanForRnodes(S)
    \/ \E a \in TwoAddresses, ptyok \in BOOLEAN :
           stopper = "idle" /\ ConnectDevice(a, ptyok) /\ Bounded
    \/ \E t \in tasks, out \in {"ok", "fail", "auth", "nosvc", "raise"}, ptyok \in BOOLEAN :
           TaskStep(t, out, ptyok) /\ Bounded
    \/ Start
    \/ ~ConnectInFlight /\ StopCall
    \/ StopGather /\ Bounded
    \/ StopFinish

SpecStop == InitTwo /\ [][NextStop]_vars

\* C31: when stop() has returned after the disconnect() of a bridge raised,
\* the bridges map is empty and every other bridge that was in the map is
\* Disconnected with its GATT link down and both PTY endpoints closed.
StopToleratesFailure ==
    (hist.quiesced /\ hist.raised # {}) =>
        /\ \A a \in DOMAIN bridges : bridges[a] = 0
        /\ stopper = "idle"
        /\ \A b \in {c \in BridgeIds : Born(c)} \ hist.raised :
              /\ br[b].state = DISCONNECTED
              /\ ~br[b].is_connected
              /\ Closed(br[b])

\* stop() has returned; of two bridges that were connected, one raised in
\* disconnect() and the other was disconnected
StopReturnedAfterRaise ==
    /\ hist.quiesced
    /\ Cardinality(hist.raised) = 1
    /\ \E b \in BridgeIds \ hist.raised :
          Born(b) /\ br[b].state = DISCONNECTED /\ br[b].client = "down"

(***************************************************************************)
(* SpecDual: two peripherals in range, a bridge for each, and traffic in   *)
(* both directions on both bridges.                                        *)
(***************************************************************************)
\* f"RNode-{rnode.address.replace(':', '')}"
device_name(a) == <<"RNode-">> \o SelectSeq(AddressText(a), LAMBDA ch : ch # ":")

\* VirtualSerialPort.get_symlink_path
get_symlink_path(a) == <<"/tmp/cu.">> \o device_name(a)

\* frames read from one PTY and their lengths under SpecDual
MaxDualFrames == 1
DualFrameLens == {3, 25}

NextDual ==
    \/ \E S \in SUBSET TwoAddresses : ScanForRnodes(S)
    \/ \E a \in TwoAddresses : ConnectDevice(a, TRUE) /\ Bounded
    \/ \E t \in tasks, out \in {"ok", "fail"} : TaskStep(t, out, TRUE) /\ Bounded
    \/ \E b \in BridgeIds, n \in DualFrameLens :
           Len(io[b].read) < MaxDualFrames /\ PtyRead(b, n)
    \/ \E b \in BridgeIds : TxGet(b)
    \/ \E b \in BridgeIds : TxWrite(b, TRUE)
    \/ \E b \in BridgeIds : io[b].notes < MaxDualFrames /\ Notification(b)
    \/ \E b \in BridgeIds : RxGet(b)
    \/ \E b \in BridgeIds : RxWrite(b, "ok")

SpecDual == InitTwo /\ [][NextDual]_vars

Bytes(chunks) == LET all == Flatten(chunks) IN {all[j] : j \in DOMAIN all}

\* the payloads of the notifications that arrived on the link of bridge b
Notified(b) == [k \in 1..io[b].notes |-> Payload(Numbered(b, k, MaxNotes))]

\* C32: two bridges for distinct addresses have different symlink paths and
\* share no GATT client and no serial port (so no queue); no byte read from
\* the PTY of one is written to the RX characteristic of the other, and no
\* byte notified by the peripheral of one is written to the PTY of the other.
DualBridgeIsolation ==
    \A b, c \in BridgeIds :
        (b # c /\ Born(b) /\ Born(c) /\ br[b].addr # br[c].addr) =>
            /\ get_symlink_path(br[b].addr) # get_symlink_path(br[c].addr)
            /\ ble_client(b) # ble_client(c)
            /\ virtual_serial(b) # virtual_serial(c)
            /\ Bytes(io[b].wire) \cap Bytes(io[c].read) = {}
            /\ Bytes(io[b].tx_queue) \cap Bytes(io[c].read) = {}
            /\ Bytes(io[b].pty) \cap Bytes(Notified(c)) = {}
            /\ Bytes(io[b].rx_queue) \cap Bytes(Notified(c)) = {}

\* both bridges are Connected at the same time and each has carried a frame
\* to its peripheral and a notification to its PTY
BothBridgesCarried ==
    \E b, c \in BridgeIds :
        /\ b # c /\ br[b].addr # br[c].addr
        /\ br[b].state = CONNECTED /\ br[c].state = CONNECTED
        /\ io[b].wire # <<>> /\ io[c].wire # <<>>
        /\ io[b].pty # <<>> /\ io[c].pty # <<>>

(***************************************************************************)
(* SpecWriteFail: a bridge is connected, the host writes frames to its     *)
(* serial port and every write to the RX characteristic raises, while the  *)
(* peripheral stays connected (BleakClient.is_connected remains true).     *)
(* The outgoing pump is a task of the event loop: a step of it that stays  *)
(* possible is taken.                                                      *)
(***************************************************************************)
\* _tx_worker: write_gatt_char raises; `self.tx_queue.put(data)` and, after
\* asyncio.sleep(0.1), the next pass of the loop.  failures counts up to
\* MaxWriteFailures and stays there; taken keeps the frames that were taken
\* and not put back.
TxWriteFails(b) ==
    /\ Born(b) /\ br[b].pumps = "alive"
    /\ io[b].data # <<>>
    /\ io' = [io EXCEPT ![b].tx_queue = Append(@, io[b].data),
                         ![b].data = <<>>,
                         ![b].i = 0,
                         ![b].taken = SubSeq(@, 1, Len(@) - 1),
                         ![b].failures = IF @ < MaxWriteFailures THEN @ + 1 ELSE @]
    /\ ev' = NoEvent
    /\ UNCHANGED ctl

NextWriteFail ==
    \/ \E S \in SUBSET Addresses : ScanForRnodes(S)
    \/ \E a \in Addresses : ConnectDevice(a, TRUE) /\ Bounded
    \/ \E t \in tasks, out \in {"ok", "fail"} : TaskStep(t, out, TRUE) /\ Bounded
    \/ \E b \in BridgeIds, n \in FrameLens : PtyRead(b, n)
    \/ \E b \in BridgeIds : TxGet(b)
    \/ \E b \in BridgeIds : TxWriteFails(b)

SpecWriteFail ==
    /\ Init /\ [][NextWriteFail]_vars
    /\ \A b \in BridgeIds : WF_vars(TxGet(b)) /\ WF_vars(TxWriteFails(b))

\* C33: when the writes to the RX characteristic of a link keep failing, the
\* link eventually becomes disconnected with connection_lost called.
WriteFailureEndsLink ==
    \A b \in BridgeIds :
        (Born(b) /\ br[b].is_connected /\ io[b].failures > 0)
            ~> (~br[b].is_connected /\ br[b].lost_calls > 0)

(***************************************************************************)
(* Properties of a failed connection, checked under Spec.                  *)
(***************************************************************************)
\* C34: when connect() has returned false because the GATT connect failed,
\* the client is neither connected nor connecting, it has no pump or monitor
\* task and no characteristic, and its BleakClient is not connected.
FailedConnectIsIdle ==
    (ev.ret = "false" /\ ev.why = "gatt") =>
        /\ ~br[ev.b].is_connected /\ ~br[ev.b].is_connecting
        /\ br[ev.b].pumps = "none"
        /\ ~br[ev.b].chars
        /\ br[ev.b].client # "up"

(***************************************************************************)
(* Properties of the write pump of the PTY, checked under SpecData.        *)
(***************************************************************************)
\* C35: when os.write to the master fd has just failed with EIO or EPIPE,
\* the write pump is still running and the chunk is on rx_queue again; the
\* pump has ended only when the error was EBADF.
PtyWriteErrorPolicy ==
    ev.op = "os.write" =>
        IF ev.why \in {"eio", "epipe"}
        THEN io[ev.b].writing /\ io[ev.b].rx_queue # <<>>
        ELSE ~io[ev.b].writing

(***************************************************************************)
(* Properties of the bridges map, checked under Spec.                      *)
(***************************************************************************)
\* C36: in every reachable state, every bridge whose state is Connecting,
\* Connected or Error is the entry of the bridges map for its address.
NoOrphanBridge ==
    \A b \in BridgeIds :
        (Born(b) /\ br[b].state \in {CONNECTING, CONNECTED, ERROR})
            => bridges[br[b].addr] = b

(***************************************************************************)
(* SpecRegister: two peripherals in range; connect_device is called for    *)
(* them, the connections succeed or fail, and the started service's        *)
(* monitor loop makes its passes.  Nothing calls disconnect_device or      *)
(* stop().                                                                 *)
(***************************************************************************)
NextRegister ==
    \/ \E S \in SUBSET TwoAddresses : ScanForRnodes(S)
    \/ \E a \in TwoAddresses, ptyok \in BOOLEAN : ConnectDevice(a, ptyok) /\ Bounded
    \/ \E t \in tasks, out \in {"ok", "fail", "auth", "nosvc"}, ptyok \in BOOLEAN :
           TaskStep(t, out, ptyok) /\ Bounded
    \/ Start
    \/ \E ptyok \in BOOLEAN : MonitorWake(ptyok) /\ Bounded

SpecRegister == InitTwo /\ [][NextRegister]_vars

\* C37: when connect_device has returned false because connect() of the
\* bridge it made returned false, the bridges map holds that bridge for its
\* address, the bridge is in state Error, and get_bridge_info counts it in
\* total_bridges and not in connected_bridges.
FailedBridgeStaysRegistered ==
    (ev.op = "connect_device" /\ ev.ret = "false" /\ ev.why = "gatt") =>
        /\ bridges[br[ev.b].addr] = ev.b
        /\ br[ev.b].state = ERROR
        /\ total_bridges(bridges) >= 1
        /\ connected_bridges(bridges, br) < total_bridges(bridges)

\* connect_device for one address has just returned false while the bridge
\* for the other address is Connected: two bridges in all, one connected
OneFailedOneConnected ==
    /\ ev.op = "connect_device" /\ ev.ret = "false" /\ ev.why = "gatt"
    /\ br[ev.b].state = ERROR
    /\ total_bridges(bridges) = 2
    /\ connected_bridges(bridges, br) = 1

(***************************************************************************)
(* SpecSupervise: start() and stop() of the service followed task by task, *)
(* with scans going on.  No bridge is made, so _disconnect_all_bridges has *)
(* nothing to await; start() and stop() are called at any time, also while *)
(* a stop() is suspended, and a cancelled task ends when the event loop    *)
(* runs it.  monitor and stopper, which stand for these tasks in the other *)
(* specifications, are left alone.                                         *)
(***************************************************************************)
\* calls of start() that start the service in one behaviour
MaxStarts == 2

\* the signal strength of the advertisements under SpecSupervise
SupRssi == -40

SupIdle == UNCHANGED <<discovered_devices, bridges, br, symlink, tasks, monitor,
                       stopper, now, hist, io, env, pm, probe>>

Worker(id, kind) == [id |-> id, kind |-> kind, cancelled |-> FALSE]

\* BLEDiscovery.add_discovery_callback: self.scan_callbacks.append(callback)
add_discovery_callback(n) == n + 1

\* task.cancel() on the task with the id, which may be done already
cancel(workers, id) ==
    {IF w.id = id THEN [w EXCEPT !.cancelled = TRUE] ELSE w : w \in workers}

Alive(workers, id) == \E w \in workers : w.id = id

\* BLESerialBridge.start with auto_discover, which has no await
start ==
    /\ SupIdle
    /\ ev' = NoEvent
    /\ IF is_running
       THEN UNCHANGED <<is_running, sup>>
       ELSE /\ sup.scan_callbacks < MaxStarts
            /\ is_running' = TRUE
            /\ sup' = [sup EXCEPT
                   !.scan_callbacks = add_discovery_callback(@),
                   !.discovery_task = sup.made + 1,
                   !.monitor_task = sup.made + 2,
                   !.workers = @ \cup {Worker(sup.made + 1, "discovery"),
                                       Worker(sup.made + 2, "monitor")},
                   !.made = @ + 2]

\* stop() from `if self._monitor_task:` on: the task the field names now is
\* cancelled and awaited; then _disconnect_all_bridges, with no bridge
stop_monitor(S) ==
    IF S.monitor_task # 0 /\ Alive(S.workers, S.monitor_task)
    THEN [S EXCEPT !.workers = cancel(@, S.monitor_task),
                   !.stops = @ \cup {[pc |-> "monitor", awaits |-> S.monitor_task]}]
    ELSE S

\* stop() from `if self._discovery_task:` on
stop_discovery(S) ==
    IF S.discovery_task # 0 /\ Alive(S.workers, S.discovery_task)
    THEN [S EXCEPT !.workers = cancel(@, S.discovery_task),
                   !.stops = @ \cup {[pc |-> "discovery", awaits |-> S.discovery_task]}]
    ELSE stop_monitor(S)

\* BLESerialBridge.stop up to its first suspension
stop ==
    /\ SupIdle
    /\ ev' = NoEvent
    /\ IF ~is_running
       THEN UNCHANGED <<is_running, sup>>
       ELSE /\ is_running' = FALSE
            /\ sup' = stop_discovery(sup)

\* the task a stop() awaits is done: stop() goes on
stop_resume(c) ==
    /\ SupIdle
    /\ c \in sup.stops
    /\ ~Alive(sup.workers, c.awaits)
    /\ ev' = NoEvent
    /\ UNCHANGED is_running
    /\ LET S == [sup EXCEPT !.stops = @ \ {c}]
       IN  sup' = IF c.pc = "discovery" THEN stop_monitor(S) ELSE S

\* a worker that was cancelled is run by the event loop: CancelledError is
\* raised at its await, which no `except Exception` of _discovery_worker or
\* _monitor_worker catches; a worker that was not cancelled leaves its
\* `while self.is_running` loop when the flag is false
worker_ends(w) ==
    /\ SupIdle
    /\ w \in sup.workers
    /\ w.cancelled \/ ~is_running
    /\ ev' = NoEvent
    /\ UNCHANGED is_running
    /\ sup' = [sup EXCEPT !.workers = @ \ {w}]

NextSupervise ==
    \/ start
    \/ stop
    \/ \E c \in sup.stops : stop_resume(c)
    \/ \E w \in sup.workers : worker_ends(w)
    \/ ScanStart("manual")
    \/ \E a \in ScanAddrs : Sight(a, SupRssi)
    \/ ScanStop("manual")

SpecSupervise == Init /\ [][NextSupervise]_vars

\* C38: in a scan, the service's device-discovered callback is notified of
\* an address at most once.
DiscoveredToldOnce ==
    \A who \in Scanners : \A a \in DOMAIN env.adverts[who] :
        env.adverts[who][a].told <= 1

\* the tasks of a kind that are not done and were not cancelled
Running(kind) == {w \in sup.workers : w.kind = kind /\ ~w.cancelled}

\* C39: at every point at most one monitor task and at most one discovery
\* task of the service are running.
OneSupervisorOfEachKind ==
    /\ Cardinality(Running("monitor")) <= 1
    /\ Cardinality(Running("discovery")) <= 1

(***************************************************************************)
(* SpecTeardown: a bridge is connected, the host writes frames to its      *)
(* serial port, and reconnect() of the bridge is called at any time, which *)
(* disconnects the link and connects it again.  The writes succeed.        *)
(***************************************************************************)
\* _cleanup_connection has called self._tx_task.cancel(): CancelledError is
\* raised in _tx_worker at the await of its write or of its sleep, where
\* neither `except Exception` catches it; the frame it had taken from the
\* queue goes with the task
TxWorkerCancelled(b) ==
    /\ Born(b) /\ br[b].pumps = "ending"
    /\ io[b].data # <<>>
    /\ io' = [io EXCEPT ![b].data = <<>>, ![b].i = 0]
    /\ ev' = NoEvent
    /\ UNCHANGED ctl

\* `await self._tx_task` of _cleanup_connection returns when the cancelled
\* worker has ended
TxTaskDone == \A b \in BridgeIds : br[b].pumps = "ending" => io[b].data = <<>>

NextTeardown ==
    \/ \E S \in SUBSET Addresses : ScanForRnodes(S)
    \/ \E a \in Addresses : ConnectDevice(a, TRUE) /\ Bounded
    \/ \E b \in BridgeIds : ReconnectCall(b, TRUE) /\ Bounded
    \/ \E t \in tasks, out \in {"ok", "fail"} : TxTaskDone /\ TaskStep(t, out, TRUE) /\ Bounded
    \/ \E b \in BridgeIds, n \in DualFrameLens : PtyRead(b, n)
    \/ \E b \in BridgeIds : TxGet(b)
    \/ \E b \in BridgeIds : TxWrite(b, TRUE)
    \/ \E b \in BridgeIds : TxWorkerCancelled(b)

SpecTeardown == Init /\ [][NextTeardown]_vars

\* C40: a frame that BLEGATTClient.send_data accepted is, at every moment,
\* still on tx_queue, in the hands of the outgoing pump, or written to the
\* RX characteristic: none is lost when the link is disconnected.
AcceptedFramesSurvive ==
    \A b \in BridgeIds : \A m \in DOMAIN io[b].taken :
        LET f == io[b].taken[m]
        IN  \/ f = io[b].data
            \/ \E q \in DOMAIN io[b].tx_queue : io[b].tx_queue[q] = f
            \/ Bytes(<<f>>) \subseteq Bytes(io[b].wire)

=============================================================================
